---- MODULE Spec2Model ----
(***************************************************************************)
(* A model of the ProxiBase mirroring reverse proxy (backend/app): the URL *)
(* mapper, the SSRF guard, the rate limiter, the session manager, the      *)
(* cookie jar and the request pipeline of proxy_handler / proxy_request.   *)
(*                                                                         *)
(* Strings are sequences of one-character strings, so that splitting,      *)
(* stripping, prefix and suffix tests are computed as the Python code      *)
(* computes them.                                                          *)
(***************************************************************************)
EXTENDS Integers, Sequences, FiniteSets, TLC

(***************************************************************************)
(* Bounds of the model.                                                    *)
(***************************************************************************)
\* longest request path (in characters) drawn for the URL mapper
MaxPathLen == 4
\* longest session token and longest cookie value drawn for the session manager
MaxTokenLen == 2
MaxCookieLen == 4
MaxQueryLen == 2
MaxAnchors == 2
MaxSequentialStores == 3
TicksPerSecond == 2
MaxLimiterCalls == 5

(***************************************************************************)
(* Python str operations on character sequences.                           *)
(***************************************************************************)
Take(s, n) == SubSeq(s, 1, n)
Drop(s, n) == SubSeq(s, n + 1, Len(s))

\* c in s
HasChar(s, c) == \E i \in 1..Len(s) : s[i] = c

\* s.startswith(pre) / s.endswith(suf)
StartsWith(s, pre) == Len(pre) <= Len(s) /\ Take(s, Len(pre)) = pre
EndsWith(s, suf) == Len(suf) <= Len(s) /\ Drop(s, Len(s) - Len(suf)) = suf

MinOf(I) == CHOOSE i \in I : \A j \in I : i <= j
MaxOf(I) == CHOOSE i \in I : \A j \in I : j <= i

\* s.find(c, from): the first index >= from holding c, 0 when there is none
\* (indices are 1-based; Python's -1 is 0 here)
FindFrom(s, c, from) ==
  LET I == {i \in from..Len(s) : s[i] = c}
  IN  IF I = {} THEN 0 ELSE MinOf(I)
Find(s, c) == FindFrom(s, c, 1)

\* s.rfind(c): the last index holding c, 0 when there is none
RFind(s, c) ==
  LET I == {i \in 1..Len(s) : s[i] = c}
  IN  IF I = {} THEN 0 ELSE MaxOf(I)

\* s.lstrip(c)
LStrip(s, c) ==
  LET I == {i \in 1..Len(s) : s[i] # c}
  IN  IF I = {} THEN <<>> ELSE Drop(s, MinOf(I) - 1)

\* s.strip() for the blank character
Strip(s) ==
  LET I == {i \in 1..Len(s) : s[i] # " "}
  IN  IF I = {} THEN <<>> ELSE SubSeq(s, MinOf(I), MaxOf(I))

\* s.lower()
LowerChar(c) ==
  CASE c = "A" -> "a"
    [] c = "B" -> "b"
    [] c = "C" -> "c"
    [] c = "D" -> "d"
    [] c = "E" -> "e"
    [] c = "F" -> "f"
    [] c = "G" -> "g"
    [] c = "H" -> "h"
    [] c = "I" -> "i"
    [] c = "J" -> "j"
    [] c = "K" -> "k"
    [] c = "L" -> "l"
    [] c = "M" -> "m"
    [] c = "N" -> "n"
    [] c = "O" -> "o"
    [] c = "P" -> "p"
    [] c = "Q" -> "q"
    [] c = "R" -> "r"
    [] c = "S" -> "s"
    [] c = "T" -> "t"
    [] c = "U" -> "u"
    [] c = "V" -> "v"
    [] c = "W" -> "w"
    [] c = "X" -> "x"
    [] c = "Y" -> "y"
    [] c = "Z" -> "z"
    [] OTHER -> c
Lower(s) == [i \in 1..Len(s) |-> LowerChar(s[i])]

\* s.split(c, 1): <<head, tail>> around the first c, <<s>> when there is none
Split1(s, c) ==
  LET i == Find(s, c)
  IN  IF i = 0 THEN <<s>> ELSE <<Take(s, i - 1), Drop(s, i)>>

\* s.rsplit(c, 1): <<head, tail>> around the last c, <<s>> when there is none
RSplit1(s, c) ==
  LET i == RFind(s, c)
  IN  IF i = 0 THEN <<s>> ELSE <<Take(s, i - 1), Drop(s, i)>>

\* every sequence over alphabet A of length at most n
RECURSIVE SeqsUpTo(_, _)
SeqsUpTo(A, n) ==
  IF n = 0 THEN {<<>>}
  ELSE LET shorter == SeqsUpTo(A, n - 1)
       IN  shorter \cup {Append(s, c) : s \in {t \in shorter : Len(t) = n - 1}, c \in A}

HTTPS == <<"h","t","t","p","s",":","/","/">>
HTTP == <<"h","t","t","p",":","/","/">>


(***************************************************************************)
(* The state: one group of variables per component.                        *)
(***************************************************************************)
VARIABLES
  u_kind,    \* "mirror": starts from a mirror request; "origin": from an origin URL
  u_cfg,     \* the effective configuration of the site
  u_mhost,   \* host of the mirror request
  u_path,    \* path of the mirror request
  u_query,   \* raw query string of the mirror request
  u_origin,  \* the origin URL (built forward, or given)
  u_mirror,  \* the mirror URL produced by a reverse mapper
  u_mapper,  \* the reverse mapper applied: "none", "router", "rewriter"
  u_back,    \* origin URL built for the request that follows the mirror URL
  u_html,    \* an HTML page: the href values of its <a> elements, in order
  u_rewritten, \* the page after rewrite_html
  u_pc       \* "request", "origin", "mirror", "done"

urlVars == <<u_kind, u_cfg, u_mhost, u_path, u_query, u_origin, u_mirror, u_mapper, u_back, u_html, u_rewritten, u_pc>>

VARIABLES
  s_mode,    \* "sign": a token is signed, then verified; "verify": a cookie value is verified
  s_token,   \* the token to sign
  s_cookie,  \* the cookie value (signed token, or what a client sent)
  s_result,  \* what verify_session_id returned
  s_pc       \* "token", "cookie", "verified"

sessVars == <<s_mode, s_token, s_cookie, s_result, s_pc>>

VARIABLES
  g_scheme,  \* scheme of the URL under test
  g_host,    \* its host: an entry of HostTable, or NoHost
  g_url,     \* the URL string
  g_result,  \* what is_safe_origin_url returned
  g_pc       \* "url", "checked"

guardVars == <<g_scheme, g_host, g_url, g_result, g_pc>>

VARIABLES
  rl_now,       \* the clock (time.time())
  rl_lock,      \* self.lock: the thread holding it, or NoThread
  request_log,  \* self.request_log: per IP, the timestamps kept
  rl_pc,        \* per thread: where it is in is_allowed
  rl_ip,        \* per thread: client_ip
  rl_time,      \* per thread: current_time
  rl_count,     \* per thread: current_count
  rl_result,    \* per thread: what is_allowed returned, <<allowed, remaining>>
  rl_retry,     \* per thread: what get_retry_after returned
  rl_calls,     \* calls of is_allowed made so far
  rl_admitted   \* history: per IP, the admission times of the calls that returned True

rlVars == <<rl_now, rl_lock, request_log, rl_pc, rl_ip, rl_time, rl_count, rl_result, rl_retry, rl_calls, rl_admitted>>

VARIABLES
  cookie_jars,  \* the cookie_jars table: rows [key, cookie_data], the id is the index
  st_pc,        \* per store_cookies call: where it is
  st_key,       \* per call: (site_id, session_id, origin_host)
  st_cookies,   \* per call: cookies
  st_row,       \* per call: cookie_jar, the row the select returned
  st_data,      \* per call: cookie_data of the row object held in memory
  st_got        \* the last get_cookies call: key, result, made after all store calls completed

storeVars == <<cookie_jars, st_pc, st_key, st_cookies, st_row, st_data, st_got>>

VARIABLES
  p_cfg,          \* <<site.session_mode, global_config.session_mode>>
  p_now,          \* the clock
  p_request_log,  \* the rate limiter's request_log
  p_jar,          \* the cookie_jars table
  p_served,       \* requests handled so far
  p_proxied,      \* history: per triple, the name=value pairs of the Set-Cookie headers of the proxied origin responses
  p_pc,           \* where proxy_handler / proxy_request is
  p_request,      \* the request: host, path, px_session_id cookie, client_ip
  p_site,         \* site
  p_origin_url,   \* origin_url
  p_session,      \* signed_session_id, session_id, new_session_created
  p_cookie_header,\* forward_headers['Cookie']
  p_upstream,     \* the upstream request sent: url and Cookie header
  p_response,     \* the origin's response
  p_reply,        \* the response to the user agent
  p_did           \* what this request has done: session minted, jar reads, jar writes

proxyVars == <<p_cfg, p_now, p_request_log, p_jar, p_served, p_proxied, p_pc, p_request, p_site, p_origin_url, p_session, p_cookie_header, p_upstream, p_response, p_reply, p_did>>

VARIABLES
  x_cfg,       \* effective_config: session_mode, proxy_external_domains
  x_host,      \* the Host header of the request
  x_headers,   \* the other headers of the request, names in lower case
  x_cookie,    \* request.cookies.get('px_session_id')
  x_origin_url,\* origin_url
  x_session,   \* signed_session_id, session_id, new_session_created
  x_forward,   \* forward_headers
  x_jar,       \* the cookie_jars table
  x_upstream,  \* the upstream request sent: url and headers
  x_response,  \* the origin's response: status and headers as received
  x_reply,     \* the response to the user agent
  x_log,       \* the log events emitted
  x_pc         \* where proxy_request is

exchangeVars == <<x_cfg, x_host, x_headers, x_cookie, x_origin_url, x_session, x_forward, x_jar, x_upstream, x_response, x_reply, x_log, x_pc>>

VARIABLES
  j_table,     \* the cookie_jars table
  j_history,   \* the store_cookies calls made: key and Set-Cookie headers
  j_got,       \* the get_cookies call made: key and result
  j_pc         \* "calls" while store_cookies calls are made, "read" after get_cookies

jarVars == <<j_table, j_history, j_got, j_pc>>

VARIABLES
  ra_now,      \* time.time(), in ticks of 1/TicksPerSecond second
  ra_log,      \* self.request_log: the timestamps of each IP, in ticks
  ra_result,   \* what the last is_allowed call of each IP returned
  ra_admits,   \* the number of calls admitted for each IP
  ra_retry,    \* the last get_retry_after results of each IP, latest last
  ra_calls     \* the number of calls made

retryVars == <<ra_now, ra_log, ra_result, ra_admits, ra_retry, ra_calls>>

VARIABLES
  rt_sites,    \* the rows of the sites table, in the order a query returns them
  rt_global,   \* the global_config row
  rt_request,  \* the request the rate limiter admitted: host, path, query
  rt_site,     \* site of proxy_handler: what find_site_by_host returned
  rt_origin_url, \* origin_url of proxy_handler
  rt_config,   \* effective_config of proxy_request
  rt_upstream, \* the URL of the upstream request, None before it is sent
  rt_reply,    \* the proxy's own response: its status code, 0 without one
  rt_pc        \* where the handler stands

routeVars == <<rt_sites, rt_global, rt_request, rt_site, rt_origin_url, rt_config, rt_upstream, rt_reply, rt_pc>>

VARIABLES
  cf_site,     \* the configuration columns of a site row
  cf_global,   \* the configuration columns of the global_config row
  cf_result,   \* what get_effective_config returned, None before the call
  cf_pc        \* "call" before the call, "returned" after it

configVars == <<cf_site, cf_global, cf_result, cf_pc>>

VARIABLES
  sw_soup,     \* the parsed document before the sweep: a sequence of elements
  sw_cfg,      \* the effective configuration handed to rewrite_html
  sw_mhost,    \* the mirror host that serves the page
  sw_out,      \* the document after the sweep
  sw_pc        \* "parsed" before the sweep, "swept" after it

sweepVars == <<sw_soup, sw_cfg, sw_mhost, sw_out, sw_pc>>

VARIABLES
  f_op,        \* "clean" or "inject": the pass that is applied
  f_html,      \* the HTML text handed to the pass
  f_config,    \* the effective configuration handed to the pass
  f_once,      \* the text the pass returned
  f_twice,     \* the text the pass returned for its own output
  f_pc         \* "html", then "once", then "twice"

filterVars == <<f_op, f_html, f_config, f_once, f_twice, f_pc>>

VARIABLES
  mt_log,      \* self.request_log: the IPs held and the timestamps of each
  mt_result,   \* what the last is_allowed call of each IP returned
  mt_retry,    \* what the last get_retry_after call of each IP returned
  mt_clock     \* time.time(): the clock's position within the running second

maintVars == <<mt_log, mt_result, mt_retry, mt_clock>>

VARIABLES
  sh_jars,     \* the cookie_jars table of the database all requests share
  sh_req,      \* the requests in flight: where each is, its jar key, what it sent
  sh_started   \* the number of requests that have arrived

shareVars == <<sh_jars, sh_req, sh_started>>

vars == <<urlVars, sessVars, guardVars, rlVars, storeVars, proxyVars, exchangeVars, jarVars, retryVars, routeVars, configVars, sweepVars, filterVars, maintVars, shareVars>>
otherThanURL == <<sessVars, guardVars, rlVars, storeVars, proxyVars, exchangeVars, jarVars, retryVars, routeVars, configVars, sweepVars, filterVars, maintVars, shareVars>>
otherThanSession == <<urlVars, guardVars, rlVars, storeVars, proxyVars, exchangeVars, jarVars, retryVars, routeVars, configVars, sweepVars, filterVars, maintVars, shareVars>>
otherThanGuard == <<urlVars, sessVars, rlVars, storeVars, proxyVars, exchangeVars, jarVars, retryVars, routeVars, configVars, sweepVars, filterVars, maintVars, shareVars>>
otherThanRL == <<urlVars, sessVars, guardVars, storeVars, proxyVars, exchangeVars, jarVars, retryVars, routeVars, configVars, sweepVars, filterVars, maintVars, shareVars>>
otherThanStore == <<urlVars, sessVars, guardVars, rlVars, proxyVars, exchangeVars, jarVars, retryVars, routeVars, configVars, sweepVars, filterVars, maintVars, shareVars>>
otherThanProxy == <<urlVars, sessVars, guardVars, rlVars, storeVars, exchangeVars, jarVars, retryVars, routeVars, configVars, sweepVars, filterVars, maintVars, shareVars>>
otherThanExchange == <<urlVars, sessVars, guardVars, rlVars, storeVars, proxyVars, jarVars, retryVars, routeVars, configVars, sweepVars, filterVars, maintVars, shareVars>>
otherThanJar == <<urlVars, sessVars, guardVars, rlVars, storeVars, proxyVars, exchangeVars, retryVars, routeVars, configVars, sweepVars, filterVars, maintVars, shareVars>>
otherThanRetry == <<urlVars, sessVars, guardVars, rlVars, storeVars, proxyVars, exchangeVars, jarVars, routeVars, configVars, sweepVars, filterVars, maintVars, shareVars>>
otherThanRoute == <<urlVars, sessVars, guardVars, rlVars, storeVars, proxyVars, exchangeVars, jarVars, retryVars, configVars, sweepVars, filterVars, maintVars, shareVars>>
otherThanConfig == <<urlVars, sessVars, guardVars, rlVars, storeVars, proxyVars, exchangeVars, jarVars, retryVars, routeVars, sweepVars, filterVars, maintVars, shareVars>>
otherThanSweep == <<urlVars, sessVars, guardVars, rlVars, storeVars, proxyVars, exchangeVars, jarVars, retryVars, routeVars, configVars, filterVars, maintVars, shareVars>>
otherThanFilter == <<urlVars, sessVars, guardVars, rlVars, storeVars, proxyVars, exchangeVars, jarVars, retryVars, routeVars, configVars, sweepVars, maintVars, shareVars>>
otherThanMaint == <<urlVars, sessVars, guardVars, rlVars, storeVars, proxyVars, exchangeVars, jarVars, retryVars, routeVars, configVars, sweepVars, filterVars, shareVars>>
otherThanShare == <<urlVars, sessVars, guardVars, rlVars, storeVars, proxyVars, exchangeVars, jarVars, retryVars, routeVars, configVars, sweepVars, filterVars, maintVars>>

(***************************************************************************)
(* Each component is checked on its own, the others at rest.               *)
(***************************************************************************)
IdleURL ==
  /\ u_kind = "idle" /\ u_cfg = [media_policy |-> "proxy", proxy_external_domains |-> TRUE]
  /\ u_mhost = <<>> /\ u_path = <<>> /\ u_query = <<>> /\ u_origin = <<>> /\ u_mirror = <<>>
  /\ u_mapper = "none" /\ u_back = <<>> /\ u_html = <<>> /\ u_rewritten = <<>> /\ u_pc = "idle"
IdleSession ==
  /\ s_mode = "idle" /\ s_token = <<>> /\ s_cookie = <<>> /\ s_result = <<"None">>
  /\ s_pc = "idle"
IdleGuard ==
  /\ g_scheme = <<>> /\ g_host = [name |-> <<>>, kind |-> "none", a |-> <<>>, aaaa |-> <<>>]
  /\ g_url = <<>>
  /\ g_result = [safe |-> FALSE, reason |-> ""] /\ g_pc = "idle"
IdleRL ==
  /\ rl_now = 0 /\ rl_lock = 0 /\ request_log = <<>> /\ rl_pc = <<>> /\ rl_ip = <<>>
  /\ rl_time = <<>> /\ rl_count = <<>> /\ rl_result = <<>>
  /\ rl_retry = <<>> /\ rl_calls = 0 /\ rl_admitted = <<>>
IdleStore ==
  /\ cookie_jars = <<>> /\ st_pc = <<>> /\ st_key = <<>> /\ st_cookies = <<>>
  /\ st_row = <<>> /\ st_data = <<>> /\ st_got = <<>>
IdleProxy ==
  /\ p_cfg = <<>> /\ p_now = 0 /\ p_request_log = <<>> /\ p_jar = <<>> /\ p_served = 0
  /\ p_proxied = <<>> /\ p_pc = "off" /\ p_request = <<>> /\ p_site = <<>>
  /\ p_origin_url = <<>> /\ p_session = <<>> /\ p_cookie_header = <<>>
  /\ p_upstream = <<>> /\ p_response = <<>> /\ p_reply = <<>> /\ p_did = <<>>
IdleExchange ==
  /\ x_cfg = <<>> /\ x_host = <<>> /\ x_headers = <<>> /\ x_cookie = <<>>
  /\ x_origin_url = <<>> /\ x_session = <<>> /\ x_forward = <<>> /\ x_jar = <<>>
  /\ x_upstream = <<>> /\ x_response = <<>> /\ x_reply = <<>> /\ x_log = <<>>
  /\ x_pc = "off"
IdleJar ==
  /\ j_table = <<>> /\ j_history = <<>> /\ j_got = <<>> /\ j_pc = "off"
IdleRetry ==
  /\ ra_now = 0 /\ ra_log = <<>> /\ ra_result = <<>> /\ ra_admits = <<>>
  /\ ra_retry = <<>> /\ ra_calls = 0
IdleRoute ==
  /\ rt_sites = <<>> /\ rt_global = <<>> /\ rt_request = <<>> /\ rt_site = <<"None">>
  /\ rt_origin_url = <<>> /\ rt_config = <<>> /\ rt_upstream = <<"None">> /\ rt_reply = 0
  /\ rt_pc = "idle"
IdleConfig ==
  /\ cf_site = <<>> /\ cf_global = <<>> /\ cf_result = <<"None">> /\ cf_pc = "idle"
IdleSweep ==
  /\ sw_soup = <<>> /\ sw_cfg = [media_policy |-> "proxy", proxy_external_domains |-> TRUE]
  /\ sw_mhost = <<>> /\ sw_out = <<>> /\ sw_pc = "idle"
IdleFilter ==
  /\ f_op = "idle" /\ f_html = <<>> /\ f_config = <<>> /\ f_once = <<>> /\ f_twice = <<>>
  /\ f_pc = "idle"
IdleMaint ==
  /\ mt_log = <<>> /\ mt_result = <<>> /\ mt_retry = <<>> /\ mt_clock = 0
IdleShare ==
  /\ sh_jars = <<>> /\ sh_req = <<>> /\ sh_started = 0
IdleExceptURL == IdleSession /\ IdleGuard /\ IdleRL /\ IdleStore /\ IdleProxy /\ IdleExchange /\ IdleJar /\ IdleRetry /\ IdleRoute /\ IdleConfig /\ IdleSweep /\ IdleFilter /\ IdleMaint /\ IdleShare
IdleExceptSession == IdleURL /\ IdleGuard /\ IdleRL /\ IdleStore /\ IdleProxy /\ IdleExchange /\ IdleJar /\ IdleRetry /\ IdleRoute /\ IdleConfig /\ IdleSweep /\ IdleFilter /\ IdleMaint /\ IdleShare
IdleExceptGuard == IdleURL /\ IdleSession /\ IdleRL /\ IdleStore /\ IdleProxy /\ IdleExchange /\ IdleJar /\ IdleRetry /\ IdleRoute /\ IdleConfig /\ IdleSweep /\ IdleFilter /\ IdleMaint /\ IdleShare
IdleExceptRL == IdleURL /\ IdleSession /\ IdleGuard /\ IdleStore /\ IdleProxy /\ IdleExchange /\ IdleJar /\ IdleRetry /\ IdleRoute /\ IdleConfig /\ IdleSweep /\ IdleFilter /\ IdleMaint /\ IdleShare
IdleExceptStore == IdleURL /\ IdleSession /\ IdleGuard /\ IdleRL /\ IdleProxy /\ IdleExchange /\ IdleJar /\ IdleRetry /\ IdleRoute /\ IdleConfig /\ IdleSweep /\ IdleFilter /\ IdleMaint /\ IdleShare
IdleExceptProxy == IdleURL /\ IdleSession /\ IdleGuard /\ IdleRL /\ IdleStore /\ IdleExchange /\ IdleJar /\ IdleRetry /\ IdleRoute /\ IdleConfig /\ IdleSweep /\ IdleFilter /\ IdleMaint /\ IdleShare
IdleExceptExchange == IdleURL /\ IdleSession /\ IdleGuard /\ IdleRL /\ IdleStore /\ IdleProxy /\ IdleJar /\ IdleRetry /\ IdleRoute /\ IdleConfig /\ IdleSweep /\ IdleFilter /\ IdleMaint /\ IdleShare
IdleExceptJar == IdleURL /\ IdleSession /\ IdleGuard /\ IdleRL /\ IdleStore /\ IdleProxy /\ IdleExchange /\ IdleRetry /\ IdleRoute /\ IdleConfig /\ IdleSweep /\ IdleFilter /\ IdleMaint /\ IdleShare
IdleExceptRetry == IdleURL /\ IdleSession /\ IdleGuard /\ IdleRL /\ IdleStore /\ IdleProxy /\ IdleExchange /\ IdleJar /\ IdleRoute /\ IdleConfig /\ IdleSweep /\ IdleFilter /\ IdleMaint /\ IdleShare
IdleExceptRoute == IdleURL /\ IdleSession /\ IdleGuard /\ IdleRL /\ IdleStore /\ IdleProxy /\ IdleExchange /\ IdleJar /\ IdleRetry /\ IdleConfig /\ IdleSweep /\ IdleFilter /\ IdleMaint /\ IdleShare
IdleExceptConfig == IdleURL /\ IdleSession /\ IdleGuard /\ IdleRL /\ IdleStore /\ IdleProxy /\ IdleExchange /\ IdleJar /\ IdleRetry /\ IdleRoute /\ IdleSweep /\ IdleFilter /\ IdleMaint /\ IdleShare
IdleExceptSweep == IdleURL /\ IdleSession /\ IdleGuard /\ IdleRL /\ IdleStore /\ IdleProxy /\ IdleExchange /\ IdleJar /\ IdleRetry /\ IdleRoute /\ IdleConfig /\ IdleFilter /\ IdleMaint /\ IdleShare
IdleExceptFilter == IdleURL /\ IdleSession /\ IdleGuard /\ IdleRL /\ IdleStore /\ IdleProxy /\ IdleExchange /\ IdleJar /\ IdleRetry /\ IdleRoute /\ IdleConfig /\ IdleSweep /\ IdleMaint /\ IdleShare
IdleExceptMaint == IdleURL /\ IdleSession /\ IdleGuard /\ IdleRL /\ IdleStore /\ IdleProxy /\ IdleExchange /\ IdleJar /\ IdleRetry /\ IdleRoute /\ IdleConfig /\ IdleSweep /\ IdleFilter /\ IdleShare
IdleExceptShare == IdleURL /\ IdleSession /\ IdleGuard /\ IdleRL /\ IdleStore /\ IdleProxy /\ IdleExchange /\ IdleJar /\ IdleRetry /\ IdleRoute /\ IdleConfig /\ IdleSweep /\ IdleFilter /\ IdleMaint
MEDIA_EXTENSIONS ==
  {
    <<".","j","p","g">>,
    <<".","j","p","e","g">>,
    <<".","p","n","g">>,
    <<".","g","i","f">>,
    <<".","w","e","b","p">>,
    <<".","s","v","g">>,
    <<".","i","c","o">>,
    <<".","b","m","p">>,
    <<".","m","p","4">>,
    <<".","m","k","v">>,
    <<".","a","v","i">>,
    <<".","m","o","v">>,
    <<".","m","3","u","8">>,
    <<".","w","e","b","m">>,
    <<".","f","l","v">>,
    <<".","w","m","v">>,
    <<".","m","p","3">>,
    <<".","w","a","v">>,
    <<".","o","g","g">>,
    <<".","a","a","c">>,
    <<".","f","l","a","c">>,
    <<".","m","4","a">>,
    <<".","z","i","p">>,
    <<".","r","a","r">>,
    <<".","7","z">>,
    <<".","t","a","r">>,
    <<".","g","z">>,
    <<".","b","z","2">>,
    <<".","p","d","f">>,
    <<".","d","o","c">>,
    <<".","d","o","c","x">>,
    <<".","x","l","s">>,
    <<".","x","l","s","x">>,
    <<".","p","p","t">>,
    <<".","p","p","t","x">>,
    <<".","a","p","k">>,
    <<".","e","x","e">>,
    <<".","d","m","g">>,
    <<".","d","e","b">>,
    <<".","r","p","m">>,
    <<".","t","t","f">>,
    <<".","w","o","f","f">>,
    <<".","w","o","f","f","2">>,
    <<".","e","o","t">>,
    <<".","o","t","f">>
  }
(***************************************************************************)
(* urllib.parse, as far as the proxy uses it.                              *)
(***************************************************************************)
Letters ==
  {"a","b","c","d","e","f","g","h","i","j","k","l","m","n","o","p","q","r",
   "s","t","u","v","w","x","y","z","G","Z","S","H","T","P"}
Digits == {"0","1","2","3","4","5","6","7","8","9"}
SchemeChars == Letters \cup Digits \cup {"+", "-", "."}

\* schemes for which urlparse splits ";params" off the last path segment
UsesParams == {<<>>, <<"f","t","p">>, <<"h","t","t","p">>, <<"h","t","t","p","s">>}

\* urlsplit: url[:i] is a scheme (i the index of the first ':')
HasScheme(url, i) ==
  /\ i > 1
  /\ url[1] \in Letters
  /\ \A k \in 1..(i - 1) : url[k] \in SchemeChars

\* urlsplit: <<scheme, rest>> with the scheme lower-cased
SplitScheme(url) ==
  IF HasScheme(url, Find(url, ":"))
  THEN <<Lower(Take(url, Find(url, ":") - 1)), Drop(url, Find(url, ":"))>>
  ELSE << <<>>, url>>

\* urllib.parse._splitnetloc(url, 2): the netloc ends before the first of "/?#"
NetlocEnd(rest) ==
  LET delims == {k \in 3..Len(rest) : rest[k] \in {"/", "?", "#"}}
  IN  IF delims = {} THEN Len(rest) + 1 ELSE MinOf(delims)

\* urlsplit: <<netloc, rest>>
SplitNetloc(rest) ==
  IF StartsWith(rest, <<"/","/">>)
  THEN <<SubSeq(rest, 3, NetlocEnd(rest) - 1), Drop(rest, NetlocEnd(rest) - 1)>>
  ELSE << <<>>, rest>>

\* url.split(c, 1), with an empty tail when c does not occur: <<head, tail>>
SplitOff(s, c) ==
  IF Find(s, c) = 0 THEN <<s, <<>> >> ELSE <<Take(s, Find(s, c) - 1), Drop(s, Find(s, c))>>

SplitResult(scheme, netloc, pq, fragment) ==
  [scheme |-> scheme, netloc |-> netloc, path |-> pq[1], query |-> pq[2],
   fragment |-> fragment]
SplitQueryOf(scheme, netloc, pf) ==
  SplitResult(scheme, netloc, SplitOff(pf[1], "?"), pf[2])
SplitFragmentOf(scheme, nr) == SplitQueryOf(scheme, nr[1], SplitOff(nr[2], "#"))
SplitNetlocOf(sr) == SplitFragmentOf(sr[1], SplitNetloc(sr[2]))

\* urllib.parse.urlsplit: scheme, netloc, path (params still in it), query, fragment
urlsplit(url) == SplitNetlocOf(SplitScheme(url))

\* s.find(';', s.rfind('/')) when s has a '/', s.find(';') otherwise
ParamsIndex(url) ==
  IF HasChar(url, "/") THEN FindFrom(url, ";", RFind(url, "/")) ELSE Find(url, ";")

\* urllib.parse._splitparams: <<path, params>>
splitparams(url) ==
  IF ParamsIndex(url) = 0 THEN <<url, <<>> >>
  ELSE <<Take(url, ParamsIndex(url) - 1), Drop(url, ParamsIndex(url))>>

ParseResult(sp, pp) ==
  [scheme |-> sp.scheme, netloc |-> sp.netloc, path |-> pp[1],
   params |-> pp[2], query |-> sp.query, fragment |-> sp.fragment]
ParseSplit(sp) ==
  ParseResult(sp, IF sp.scheme \in UsesParams /\ HasChar(sp.path, ";")
                  THEN splitparams(sp.path) ELSE <<sp.path, <<>> >>)

\* urllib.parse.urlparse: urlsplit, then ";params" taken off the path
urlparse(url) == ParseSplit(urlsplit(url))

\* netloc.rpartition('@')[2]
HostInfo(netloc) ==
  IF RFind(netloc, "@") = 0 THEN netloc ELSE Drop(netloc, RFind(netloc, "@"))
\* bracketed.partition(']')[0]
BeforeBracket(bracketed) ==
  IF Find(bracketed, "]") = 0 THEN bracketed
  ELSE Take(bracketed, Find(bracketed, "]") - 1)
\* hostinfo.partition(':')[0]
BeforeColon(hostinfo) ==
  IF Find(hostinfo, ":") = 0 THEN hostinfo ELSE Take(hostinfo, Find(hostinfo, ":") - 1)
HostOfInfo(hostinfo) ==
  IF Find(hostinfo, "[") # 0
  THEN BeforeBracket(Drop(hostinfo, Find(hostinfo, "[")))
  ELSE BeforeColon(hostinfo)

\* ParseResult.hostname: user info and port dropped, brackets of an IPv6
\* literal removed, lower-cased; <<>> stands for None
hostname(netloc) == Lower(HostOfInfo(HostInfo(netloc)))

\* schemes of urllib.parse.uses_relative and uses_netloc that occur here
UsesRelative == {<<"f","t","p">>, <<"h","t","t","p">>, <<"h","t","t","p","s">>}
UsesNetloc == UsesRelative

\* s.split(c): the pieces of s between the occurrences of c
RECURSIVE SplitBy(_, _)
SplitBy(s, c) ==
  IF Find(s, c) = 0 THEN <<s>>
  ELSE <<Take(s, Find(s, c) - 1)>> \o SplitBy(Drop(s, Find(s, c)), c)
\* c.join(segs)
RECURSIVE JoinBy(_, _)
JoinBy(segs, c) ==
  IF segs = <<>> THEN <<>>
  ELSE IF Len(segs) = 1 THEN segs[1]
  ELSE segs[1] \o <<c>> \o JoinBy(Tail(segs), c)

\* urlunsplit: "//" + netloc + path for a scheme that uses a netloc
UnsplitNetloc(scheme, netloc, url) ==
  IF netloc # <<>> \/ (scheme \in UsesNetloc /\ ~StartsWith(url, <<"/","/">>))
  THEN <<"/","/">> \o netloc \o (IF url # <<>> /\ url[1] # "/" THEN <<"/">> \o url ELSE url)
  ELSE url
UnsplitScheme(scheme, url) == IF scheme # <<>> THEN scheme \o <<":">> \o url ELSE url
UnsplitQuery(url, query) == IF query # <<>> THEN url \o <<"?">> \o query ELSE url
UnsplitFragment(url, fragment) == IF fragment # <<>> THEN url \o <<"#">> \o fragment ELSE url
urlunsplit(scheme, netloc, url, query, fragment) ==
  UnsplitFragment(UnsplitQuery(UnsplitScheme(scheme, UnsplitNetloc(scheme, netloc, url)), query), fragment)
urlunparse(scheme, netloc, url, params, query, fragment) ==
  urlunsplit(scheme, netloc, IF params # <<>> THEN url \o <<";">> \o params ELSE url,
             query, fragment)

\* urljoin: base_parts, the last item dropped when it is not a directory
BaseParts(parts) == IF parts[Len(parts)] # <<>> THEN Take(parts, Len(parts) - 1) ELSE parts
\* urljoin: segments[1:-1] = filter(None, segments[1:-1])
FilterInner(segments) ==
  IF Len(segments) < 2 THEN segments
  ELSE <<segments[1]>>
         \o SelectSeq(SubSeq(segments, 2, Len(segments) - 1), LAMBDA seg : seg # <<>>)
         \o <<segments[Len(segments)]>>
JoinSegments(bpath, path) ==
  IF StartsWith(path, <<"/">>) THEN SplitBy(path, "/")
  ELSE FilterInner(BaseParts(SplitBy(bpath, "/")) \o SplitBy(path, "/"))
\* urljoin: "." segments dropped, ".." segments pop the segment before them
RECURSIVE ResolveSegments(_, _)
ResolveSegments(segments, resolved_path) ==
  IF segments = <<>> THEN resolved_path
  ELSE IF Head(segments) = <<".",".">>
  THEN ResolveSegments(Tail(segments),
                       IF resolved_path = <<>> THEN resolved_path
                       ELSE Take(resolved_path, Len(resolved_path) - 1))
  ELSE IF Head(segments) = <<".">> THEN ResolveSegments(Tail(segments), resolved_path)
  ELSE ResolveSegments(Tail(segments), Append(resolved_path, Head(segments)))
ResolvedOf(segments) ==
  IF segments[Len(segments)] \in {<<".">>, <<".",".">>}
  THEN Append(ResolveSegments(segments, <<>>), <<>>)
  ELSE ResolveSegments(segments, <<>>)
ResolvedPath(bpath, path) ==
  IF JoinBy(ResolvedOf(JoinSegments(bpath, path)), "/") = <<>> THEN <<"/">>
  ELSE JoinBy(ResolvedOf(JoinSegments(bpath, path)), "/")

\* urljoin once base and reference are parsed (scheme: the reference's, or
\* the base's when the reference has none)
JoinParsed(b, u, scheme, url) ==
  IF scheme # b.scheme \/ scheme \notin UsesRelative THEN url
  ELSE IF u.netloc # <<>>
  THEN urlunparse(scheme, u.netloc, u.path, u.params, u.query, u.fragment)
  ELSE IF u.path = <<>> /\ u.params = <<>>
  THEN urlunparse(scheme, b.netloc, b.path, b.params,
                  IF u.query = <<>> THEN b.query ELSE u.query, u.fragment)
  ELSE urlunparse(scheme, b.netloc, ResolvedPath(b.path, u.path), u.params, u.query,
                  u.fragment)
JoinOnto(b, u, url) == JoinParsed(b, u, IF u.scheme = <<>> THEN b.scheme ELSE u.scheme, url)

\* urllib.parse.urljoin
urljoin(base, url) ==
  IF base = <<>> THEN url
  ELSE IF url = <<>> THEN base
  ELSE JoinOnto(urlparse(base), urlparse(url), url)

(***************************************************************************)
(* app/core/domain_mapping.py, app/core/url_utils.py                       *)
(***************************************************************************)
Dot(s) == <<".">> \o s

map_mirror_host_to_origin_host(mirror_host, mirror_root, source_root) ==
  IF mirror_host = mirror_root THEN source_root
  ELSE IF EndsWith(mirror_host, Dot(mirror_root))
       THEN Take(mirror_host, Len(mirror_host) - Len(Dot(mirror_root)))
              \o <<".">> \o source_root
       ELSE mirror_host

\* as is_encoded_external_domain, without the test for a space
is_encoded_external_domain_DotOnly(path_segment) == HasChar(path_segment, ".")

is_encoded_external_domain(path_segment) ==
  HasChar(path_segment, ".") /\ ~HasChar(path_segment, " ")

\* as OriginHostFor, every host of the mirror mapped to the source root
OriginHostFor_SourceRoot(mirror_host, site_source_root, mirror_root) == site_source_root

\* build_origin_url: "if mirror_root: map the host, else the source root"
OriginHostFor(mirror_host, site_source_root, mirror_root) ==
  IF mirror_root # <<>>
  THEN map_mirror_host_to_origin_host(mirror_host, mirror_root, site_source_root)
  ELSE site_source_root

\* build_origin_url after the path is split: path_parts = [first] or [first, rest]
BuildFromParts(origin_host, mirror_path, path_parts) ==
  IF path_parts[1] = <<>>
  THEN HTTPS \o origin_host \o <<"/">>
  ELSE IF is_encoded_external_domain(path_parts[1])
       THEN (IF Len(path_parts) > 1 /\ path_parts[2] # <<>>
             THEN HTTPS \o path_parts[1] \o <<"/">> \o path_parts[2]
             ELSE HTTPS \o path_parts[1] \o <<"/">>)
       ELSE HTTPS \o origin_host \o mirror_path

\* build_origin_url once the path starts with "/"
BuildFromPath(origin_host, mirror_path) ==
  BuildFromParts(origin_host, mirror_path, Split1(LStrip(mirror_path, "/"), "/"))

build_origin_url(mirror_host, mirror_path, site_source_root, mirror_root) ==
  BuildFromPath(OriginHostFor(mirror_host, site_source_root, mirror_root),
                IF StartsWith(mirror_path, <<"/">>) THEN mirror_path
                ELSE <<"/">> \o mirror_path)

encode_external_url_for_mirror(mirror_root, external_host, external_path) ==
  <<"/">> \o external_host
    \o (IF StartsWith(external_path, <<"/">>) THEN external_path
        ELSE <<"/">> \o external_path)

(***************************************************************************)
(* app/proxy/router.py: the reverse mapping used on redirects              *)
(***************************************************************************)
\* path, then "?" + query and "#" + fragment when they are not empty
WithQueryFragment(path, query, fragment) ==
  path \o (IF query # <<>> THEN <<"?">> \o query ELSE <<>>)
       \o (IF fragment # <<>> THEN <<"#">> \o fragment ELSE <<>>)

\* parsed.path or '/'
PathOrSlash(path) == IF path # <<>> THEN path ELSE <<"/">>

\* map_origin_url_to_mirror once the URL is parsed
MapParsedToMirror(origin_host, origin_path, query, fragment, site, mirror_host) ==
  IF origin_host = site.source_root \/ EndsWith(origin_host, Dot(site.source_root))
  THEN HTTPS
         \o (IF origin_host = site.source_root THEN site.mirror_root
             ELSE Take(origin_host, Len(origin_host) - Len(site.source_root) - 1)
                    \o <<".">> \o site.mirror_root)
         \o WithQueryFragment(origin_path, query, fragment)
  ELSE HTTPS \o mirror_host
         \o WithQueryFragment(
              encode_external_url_for_mirror(site.mirror_root, origin_host, origin_path),
              query, fragment)

MapParseResultToMirror(parsed, site, mirror_host) ==
  MapParsedToMirror(hostname(parsed.netloc), PathOrSlash(parsed.path), parsed.query,
                    parsed.fragment, site, mirror_host)

map_origin_url_to_mirror(origin_url, site, mirror_host) ==
  MapParseResultToMirror(urlparse(origin_url), site, mirror_host)

(***************************************************************************)
(* app/proxy/rewriter.py: the reverse mapping used by the HTML rewriter    *)
(***************************************************************************)

HasMediaExtension(path) == \E ext \in MEDIA_EXTENSIONS : EndsWith(path, ext)

is_media_url(url) ==
  url # <<>> /\ HasMediaExtension(Lower(urlparse(url).path))

IsSpecialUrl(url) ==
  \/ url = <<>>
  \/ StartsWith(url, <<"d","a","t","a",":">>)
  \/ StartsWith(url, <<"j","a","v","a","s","c","r","i","p","t",":">>)
  \/ StartsWith(url, <<"m","a","i","l","t","o",":">>)
  \/ StartsWith(url, <<"#">>)

make_absolute_url(url, base_url) ==
  IF IsSpecialUrl(url) THEN url
  ELSE IF StartsWith(url, <<"/","/">>)
       THEN urlparse(base_url).scheme \o <<":">> \o url
       ELSE IF StartsWith(url, HTTP) \/ StartsWith(url, HTTPS) THEN url
            ELSE urljoin(base_url, url)

HostBelongs(h, domain) == h # <<>> /\ (h = domain \/ EndsWith(h, Dot(domain)))
url_belongs_to_domain(url, domain) == HostBelongs(hostname(urlparse(url).netloc), domain)

\* as map_origin_host_to_mirror_host, with the host left as it is
map_origin_host_to_mirror_host_Unmapped(origin_host, source_root, mirror_root) == origin_host

map_origin_host_to_mirror_host(origin_host, source_root, mirror_root) ==
  IF origin_host = source_root THEN mirror_root
  ELSE IF EndsWith(origin_host, Dot(source_root))
       THEN Take(origin_host, Len(origin_host) - Len(source_root) - 1)
              \o <<".">> \o mirror_root
       ELSE origin_host

encode_external_url_path(external_host, external_path) ==
  <<"/">> \o external_host
    \o (IF StartsWith(external_path, <<"/">>) THEN external_path
        ELSE <<"/">> \o external_path)

\* rewrite_url once the absolute URL is parsed (after the media bypass)
RewriteParsed(url, absolute_url, origin_host, origin_path, query, fragment, mirror_root, site_source_root, effective_config) ==
  IF origin_host = <<>> THEN url
  ELSE IF url_belongs_to_domain(absolute_url, site_source_root)
  THEN HTTPS
         \o map_origin_host_to_mirror_host(origin_host, site_source_root, mirror_root)
         \o WithQueryFragment(origin_path, query, fragment)
  ELSE IF ~effective_config.proxy_external_domains
  THEN absolute_url
  ELSE HTTPS \o mirror_root
         \o WithQueryFragment(encode_external_url_path(origin_host, origin_path),
                              query, fragment)

RewriteParseResult(url, absolute_url, parsed, mirror_root, site_source_root, effective_config) ==
  RewriteParsed(url, absolute_url, hostname(parsed.netloc), PathOrSlash(parsed.path),
                parsed.query, parsed.fragment, mirror_root, site_source_root,
                effective_config)

\* rewrite_url once the URL is absolute
RewriteAbsolute(url, absolute_url, mirror_root, site_source_root, effective_config) ==
  IF is_media_url(absolute_url) /\ effective_config.media_policy = "bypass"
  THEN absolute_url
  ELSE RewriteParseResult(url, absolute_url, urlparse(absolute_url), mirror_root,
                          site_source_root, effective_config)

rewrite_url(url, current_page_origin_url, mirror_host, mirror_root, site_source_root, effective_config) ==
  IF IsSpecialUrl(url) THEN url
  ELSE RewriteAbsolute(url, make_absolute_url(url, current_page_origin_url),
                       mirror_root, site_source_root, effective_config)


\* rewrite_html, for a page given by the href values of its <a> elements (no
\* value holds a character that HTML escapes): each href is replaced by
\* rewrite_url of it; an empty page is returned as it is
rewrite_html(html, mirror_host, mirror_root, site_source_root, effective_config, current_page_origin_url) ==
  IF html = <<>> THEN html
  ELSE [i \in 1..Len(html) |->
          rewrite_url(html[i], current_page_origin_url, mirror_host, mirror_root,
                      site_source_root, effective_config)]
(***************************************************************************)
(* The URL mapper as a state machine: a mirror request is mapped forward   *)
(* (build_origin_url) and the origin URL mapped back by one of the two     *)
(* reverse mappers; or an origin URL found in a page or a redirect is      *)
(* mapped to the mirror, and the user agent then requests that mirror URL. *)
(***************************************************************************)

\* the site under test: mirror_root M = m.c, source_root S = s.c
MirrorRoot == <<"m",".","c">>
SourceRoot == <<"s",".","c">>
TheSite ==
  [id |-> 1, mirror_root |-> MirrorRoot, source_root |-> SourceRoot, enabled |-> TRUE]

\* sub-domain prefixes x of one and of two labels
SubPrefixes == {<<"x">>, <<"x",".","y">>}
MirrorHosts == {MirrorRoot} \cup {x \o Dot(MirrorRoot) : x \in SubPrefixes}
SourceHosts == {SourceRoot} \cup {x \o Dot(SourceRoot) : x \in SubPrefixes}

PathAlphabet == {"/", "a", ".", ";", " "}
\* request paths: every string over the alphabet that starts with "/", and
\* some longer paths that end in a media extension
MediaPaths ==
  { <<"/","a","/","b",".","g","z">>, <<"/","a","/","b",".","G","Z">>,
    <<"/","a",";","b",".","g","z">> }
RequestPaths ==
  {p \in SeqsUpTo(PathAlphabet, MaxPathLen) : StartsWith(p, <<"/">>)} \cup MediaPaths

\* the path parameter of the route "/{path:path}": the request path without
\* its leading slash
RoutePaths == {Drop(p, 1) : p \in RequestPaths}
\* raw query strings (request.url.query)
QueryAlphabet == {"q", ".", "/"}
Queries == SeqsUpTo(QueryAlphabet, MaxQueryLen)

\* proxy_handler line 600: mirror_path = '/' + path if path else '/'
MirrorPath(path) == IF path # <<>> THEN <<"/">> \o path ELSE <<"/">>
\* proxy_handler lines 600-604: ... and '?' + query when there is a query
MirrorPathWithQuery(path, query) ==
  IF query # <<>> THEN MirrorPath(path) \o <<"?">> \o query ELSE MirrorPath(path)

EffectiveConfigsURL ==
  [media_policy : {"bypass", "proxy", "size_limited"},
   proxy_external_domains : BOOLEAN]

OriginURLs == {sch \o h \o p : sch \in {HTTP, HTTPS}, h \in SourceHosts, p \in RequestPaths}

\* the page whose links the rewriter maps
CurrentPage == HTTPS \o SourceRoot \o <<"/">>

\* href values of the <a> elements of a page: in-namespace, relative, external
\* and special ones
Hrefs ==
  { HTTPS \o SourceRoot \o <<"/","a">>,
    HTTP \o <<"x",".">> \o SourceRoot \o <<"/","a","?","q","#","f">>,
    HTTPS \o SourceRoot \o <<"/","a","/","b",".","g","z">>,
    HTTPS \o SourceRoot \o <<":","8","/","a">>,
    HTTPS \o <<"S",".","c","/","a">>,
    <<"/","/","x",".">> \o SourceRoot \o <<"/","a">>,
    <<"/","a">>, <<"b">>, <<".",".","/","b",".","g","z">>, <<"?","q">>, <<"#","f">>,
    HTTPS \o <<"e",".","c","/","a">>,
    HTTP \o <<"e",".","c">>,
    <<"/","/","e",".","c","/","a",".","g","z">>,
    HTTPS \o <<"x","s",".","c","/">>,
    <<"m","a","i","l","t","o",":","a">>,
    <<"j","a","v","a","s","c","r","i","p","t",":","a">> }
HtmlPages == SeqsUpTo(Hrefs, MaxAnchors)
\* the origin URL of the page (the origin URL built for the request)
PageOriginURL(mirror_host) ==
  build_origin_url(mirror_host, <<"/","a","/","p">>, TheSite.source_root, TheSite.mirror_root)

InitURL ==
  /\ IdleExceptURL
  /\ u_mhost \in MirrorHosts
  /\ u_mirror = <<>>
  /\ u_mapper = "none"
  /\ u_back = <<>>
  /\ u_rewritten = <<>>
  /\ \/ /\ u_kind = "html"
        /\ u_cfg \in EffectiveConfigsURL
        /\ u_path = <<>>
        /\ u_query = <<>>
        /\ u_origin = <<>>
        /\ u_html \in HtmlPages
        /\ u_pc = "page"
     \/ /\ u_kind = "mirror"
        /\ u_cfg \in EffectiveConfigsURL
        /\ u_path \in RequestPaths
        /\ u_query = <<>>
        /\ u_origin = <<>>
        /\ u_html = <<>>
        /\ u_pc = "request"
     \/ /\ u_kind = "origin"
        /\ u_cfg \in EffectiveConfigsURL
        /\ u_path = <<>>
        /\ u_query = <<>>
        /\ u_origin \in OriginURLs
        /\ u_html = <<>>
        /\ u_pc = "origin"
     \/ /\ u_kind = "query"
        /\ u_cfg = [media_policy |-> "proxy", proxy_external_domains |-> TRUE]
        /\ u_path \in RoutePaths
        /\ u_query \in Queries
        /\ u_origin = <<>>
        /\ u_html = <<>>
        /\ u_pc = "route"

\* proxy_handler builds the origin URL of a mirror request
BuildOrigin ==
  /\ u_pc = "request"
  /\ u_origin' = build_origin_url(u_mhost, u_path, TheSite.source_root,
                                  TheSite.mirror_root)
  /\ u_pc' = "origin"
  /\ UNCHANGED <<u_kind, u_cfg, u_mhost, u_path, u_query, u_mirror, u_mapper, u_back, u_html, u_rewritten>>
  /\ UNCHANGED otherThanURL

\* proxy_handler builds the origin URL of a request with a query string: the
\* route's path parameter and request.url.query make the mirror path
BuildOriginWithQuery ==
  /\ u_pc = "route"
  /\ u_origin' = build_origin_url(u_mhost, MirrorPathWithQuery(u_path, u_query),
                                  TheSite.source_root, TheSite.mirror_root)
  /\ u_pc' = "done"
  /\ UNCHANGED <<u_kind, u_cfg, u_mhost, u_path, u_query, u_mirror, u_mapper, u_back, u_html, u_rewritten>>
  /\ UNCHANGED otherThanURL

\* a redirect Location is mapped by map_origin_url_to_mirror
ReverseRouter ==
  /\ u_pc = "origin"
  /\ u_mirror' = map_origin_url_to_mirror(u_origin, TheSite, u_mhost)
  /\ u_mapper' = "router"
  /\ u_pc' = IF u_kind = "mirror" THEN "done" ELSE "mirror"
  /\ UNCHANGED <<u_kind, u_cfg, u_mhost, u_path, u_query, u_origin, u_back, u_html, u_rewritten>>
  /\ UNCHANGED otherThanURL

\* a link of an HTML page is mapped by rewrite_url
ReverseRewriter ==
  /\ u_pc = "origin"
  /\ u_mirror' = rewrite_url(u_origin, CurrentPage, u_mhost, TheSite.mirror_root,
                             TheSite.source_root, u_cfg)
  /\ u_mapper' = "rewriter"
  /\ u_pc' = IF u_kind = "mirror" THEN "done" ELSE "mirror"
  /\ UNCHANGED <<u_kind, u_cfg, u_mhost, u_path, u_query, u_origin, u_back, u_html, u_rewritten>>
  /\ UNCHANGED otherThanURL

\* proxy_request rewrites the HTML page of an origin response
RewriteHtml ==
  /\ u_pc = "page"
  /\ u_rewritten' = rewrite_html(u_html, u_mhost, TheSite.mirror_root,
                                 TheSite.source_root, u_cfg, PageOriginURL(u_mhost))
  /\ u_pc' = "done"
  /\ UNCHANGED <<u_kind, u_cfg, u_mhost, u_path, u_query, u_origin, u_mirror, u_mapper, u_back, u_html>>
  /\ UNCHANGED otherThanURL

\* the host and the path the user agent requests for a URL
RequestHostOf(url) == urlsplit(url).netloc
RequestPathOf(url) == PathOrSlash(urlsplit(url).path)
UnderMirrorRoot(h) == h = MirrorRoot \/ EndsWith(h, Dot(MirrorRoot))

\* the user agent follows the mirror URL: the request arrives at the proxy when
\* its host is under the mirror root, and proxy_handler builds its origin URL
FollowMirror ==
  /\ u_pc = "mirror"
  /\ UnderMirrorRoot(RequestHostOf(u_mirror))
  /\ u_back' = build_origin_url(RequestHostOf(u_mirror), RequestPathOf(u_mirror),
                                TheSite.source_root, TheSite.mirror_root)
  /\ u_pc' = "done"
  /\ UNCHANGED <<u_kind, u_cfg, u_mhost, u_path, u_query, u_origin, u_mirror, u_mapper, u_html, u_rewritten>>
  /\ UNCHANGED otherThanURL

NextURL == BuildOrigin \/ BuildOriginWithQuery \/ ReverseRouter \/ ReverseRewriter \/ RewriteHtml \/ FollowMirror

(***************************************************************************)
(* app/core/session_manager.py                                             *)
(***************************************************************************)
\* Optional[str]: None, or Some(s)
None == <<"None">>
Some(s) == <<"Some", s>>
\* an exception leaving a function body
Raised == <<"Raised">>

SECRET_KEY == <<"k">>
NonAscii == "\\u00e9"

\* hex digit standing for a character in the digest of the model
HexDigit(c) ==
  CASE c = "a" -> "a"
    [] c = "." -> "e"
    [] c = "k" -> "b"
    [] c = "f" -> "f"
    [] c = "e" -> "d"
    [] c = "b" -> "c"
    [] OTHER -> "0"

\* hmac.new(key, msg, sha256).hexdigest(): a string of hex digits that is a
\* function of (key, msg), with no two messages of the model sharing a digest
hmac_sha256_hexdigest(key, msg) ==
  [i \in 1..Len(key) |-> HexDigit(key[i])] \o [i \in 1..Len(msg) |-> HexDigit(msg[i])]

\* hmac.compare_digest on two str raises TypeError unless both are ASCII
compare_digest_raises(a, b) == HasChar(a, NonAscii) \/ HasChar(b, NonAscii)
compare_digest(a, b) == a = b

sign_session_id(session_id) ==
  session_id \o <<".">> \o hmac_sha256_hexdigest(SECRET_KEY, session_id)

\* as verify_try_body, but splitting on the first '.' (split instead of rsplit)
verify_try_body_SplitFirst(signed_session_id) ==
  IF ~HasChar(signed_session_id, ".") THEN None
  ELSE LET parts == Split1(signed_session_id, ".")
           session_id == parts[1]
           provided_signature == parts[2]
           expected_signature == hmac_sha256_hexdigest(SECRET_KEY, session_id)
       IN  IF compare_digest_raises(expected_signature, provided_signature)
           THEN Raised
           ELSE IF compare_digest(expected_signature, provided_signature)
                THEN Some(session_id)
                ELSE None

\* the body of verify_session_id's try block: Some(session_id), None or Raised
verify_try_body(signed_session_id) ==
  IF ~HasChar(signed_session_id, ".") THEN None
  ELSE LET parts == RSplit1(signed_session_id, ".")
           session_id == parts[1]
           provided_signature == parts[2]
           expected_signature == hmac_sha256_hexdigest(SECRET_KEY, session_id)
       IN  IF compare_digest_raises(expected_signature, provided_signature)
           THEN Raised
           ELSE IF compare_digest(expected_signature, provided_signature)
                THEN Some(session_id)
                ELSE None

\* verify_session_id: "except Exception: return None"
verify_session_id(signed_session_id) ==
  LET r == verify_try_body(signed_session_id)
  IN  IF r = Raised THEN None ELSE r

\* tokens generate_session_id can return (secrets.token_urlsafe has no '.')
UrlSafeTokens == {<<"a">>, <<"b">>}

\* session tokens and cookie values drawn for the session manager
TokenAlphabet == {"a", "."}
SessionTokens == SeqsUpTo(TokenAlphabet, MaxTokenLen)
CookieAlphabet == {"a", ".", "b", "e", NonAscii}
CookieValues == SeqsUpTo(CookieAlphabet, MaxCookieLen)


InitSession ==
  /\ IdleExceptSession
  /\ s_result = None
  /\ \/ /\ s_mode = "sign"
        /\ s_token \in SessionTokens
        /\ s_cookie = <<>>
        /\ s_pc = "token"
     \/ /\ s_mode = "verify"
        /\ s_token = <<>>
        /\ s_cookie \in CookieValues
        /\ s_pc = "cookie"

Sign ==
  /\ s_pc = "token"
  /\ s_cookie' = sign_session_id(s_token)
  /\ s_pc' = "cookie"
  /\ UNCHANGED <<s_mode, s_token, s_result>>
  /\ UNCHANGED otherThanSession

Verify ==
  /\ s_pc = "cookie"
  /\ s_result' = verify_session_id(s_cookie)
  /\ s_pc' = "verified"
  /\ UNCHANGED <<s_mode, s_token, s_cookie>>
  /\ UNCHANGED otherThanSession

NextSession == Sign \/ Verify

(***************************************************************************)
(* app/core/security.py: the SSRF guard.  The network is a table of the    *)
(* hosts a URL can name: IPv4 and IPv6 literals with the address they      *)
(* denote, and DNS names with their A and AAAA records (<<>>: no record).  *)
(***************************************************************************)
NoAddr == <<>>
HostTable ==
  {
    [name |-> <<"l","o","c","a","l","h","o","s","t">>,
     kind |-> "name", a |-> <<127,0,0,1>>, aaaa |-> <<>>],
    [name |-> <<"1","2","7",".","0",".","0",".","1">>,
     kind |-> "ipv4", a |-> <<127,0,0,1>>, aaaa |-> <<>>],
    [name |-> <<"1","2","7",".","0",".","0",".","2">>,
     kind |-> "ipv4", a |-> <<127,0,0,2>>, aaaa |-> <<>>],
    [name |-> <<"1","0",".","0",".","0",".","1">>,
     kind |-> "ipv4", a |-> <<10,0,0,1>>, aaaa |-> <<>>],
    [name |-> <<"1","7","2",".","1","6",".","0",".","1">>,
     kind |-> "ipv4", a |-> <<172,16,0,1>>, aaaa |-> <<>>],
    [name |-> <<"1","7","2",".","3","1",".","2","5","5",".","1">>,
     kind |-> "ipv4", a |-> <<172,31,255,1>>, aaaa |-> <<>>],
    [name |-> <<"1","7","2",".","3","2",".","0",".","1">>,
     kind |-> "ipv4", a |-> <<172,32,0,1>>, aaaa |-> <<>>],
    [name |-> <<"1","9","2",".","1","6","8",".","1",".","1">>,
     kind |-> "ipv4", a |-> <<192,168,1,1>>, aaaa |-> <<>>],
    [name |-> <<"1","6","9",".","2","5","4",".","1","6","9",".","2","5","4">>,
     kind |-> "ipv4", a |-> <<169,254,169,254>>, aaaa |-> <<>>],
    [name |-> <<"2","4","0",".","0",".","0",".","1">>,
     kind |-> "ipv4", a |-> <<240,0,0,1>>, aaaa |-> <<>>],
    [name |-> <<"8",".","8",".","8",".","8">>,
     kind |-> "ipv4", a |-> <<8,8,8,8>>, aaaa |-> <<>>],
    [name |-> <<":",":","1">>,
     kind |-> "ipv6", a |-> <<>>, aaaa |-> <<0,0,0,0,0,0,0,1>>],
    [name |-> <<"0",":","0",":","0",":","0",":","0",":","0",":","0",":","1">>,
     kind |-> "ipv6", a |-> <<>>, aaaa |-> <<0,0,0,0,0,0,0,1>>],
    [name |-> <<"f","c","0","0",":",":","1">>,
     kind |-> "ipv6", a |-> <<>>, aaaa |-> <<64512,0,0,0,0,0,0,1>>],
    [name |-> <<"f","e","8","0",":",":","1">>,
     kind |-> "ipv6", a |-> <<>>, aaaa |-> <<65152,0,0,0,0,0,0,1>>],
    [name |-> <<"2","0","0","1",":","4","8","6","0",":",":","8","8","8","8">>,
     kind |-> "ipv6", a |-> <<>>, aaaa |-> <<8193,18528,0,0,0,0,0,34952>>],
    [name |-> <<":",":","f","f","f","f",":","1","2","7",".","0",".","0",".","1">>,
     kind |-> "ipv6", a |-> <<>>, aaaa |-> <<0,0,0,0,0,65535,32512,1>>],
    [name |-> <<"s",".","c">>,
     kind |-> "name", a |-> <<93,184,216,34>>, aaaa |-> <<>>],
    [name |-> <<"i","n","t","r","a","n","e","t",".","c">>,
     kind |-> "name", a |-> <<10,0,0,5>>, aaaa |-> <<>>],
    [name |-> <<"m","e","t","a","d","a","t","a",".","c">>,
     kind |-> "name", a |-> <<169,254,169,254>>, aaaa |-> <<>>],
    [name |-> <<"v","6","o","n","l","y",".","c">>,
     kind |-> "name", a |-> <<>>, aaaa |-> <<64512,0,0,0,0,0,0,1>>],
    [name |-> <<"v","6","p","u","b",".","c">>,
     kind |-> "name", a |-> <<>>, aaaa |-> <<8193,18528,0,0,0,0,0,34952>>],
    [name |-> <<"n","x",".","c">>,
     kind |-> "name", a |-> <<>>, aaaa |-> <<>>]
  }

HostEntry(h) == CHOOSE e \in HostTable : e.name = h
KnownHost(h) == \E e \in HostTable : e.name = h

\* the IPv4 address in the last 32 bits of an IPv6 address
EmbeddedV4(a6) == <<a6[7] \div 256, a6[7] % 256, a6[8] \div 256, a6[8] % 256>>
IsV4Mapped(a6) == \A i \in 1..5 : a6[i] = 0 /\ a6[6] = 65535

\* socket.gethostbyname(hostname): an IPv4 address, or "gaierror".  It is
\* IPv4 only: an IPv6 literal is not resolved (unless IPv4-mapped) and a name
\* resolves through its A record alone.
gaierror == <<"gaierror">>
gethostbyname(h) ==
  IF ~KnownHost(h) THEN gaierror
  ELSE LET e == HostEntry(h)
       IN  CASE e.kind = "ipv4" -> e.a
             [] e.kind = "ipv6" -> IF IsV4Mapped(e.aaaa) THEN EmbeddedV4(e.aaaa)
                                   ELSE gaierror
             [] OTHER -> IF e.a # NoAddr THEN e.a ELSE gaierror

RECURSIVE Pow2(_)
Pow2(n) == IF n = 0 THEN 1 ELSE 2 * Pow2(n - 1)

\* ipaddress: IPv4 address a in network base/len
Hi16(x) == x[1] * 256 + x[2]
Lo16(x) == x[3] * 256 + x[4]
InNet4(a, base, len) ==
  IF len <= 16
  THEN Hi16(a) \div Pow2(16 - len) = Hi16(base) \div Pow2(16 - len)
  ELSE /\ Hi16(a) = Hi16(base)
       /\ Lo16(a) \div Pow2(32 - len) = Lo16(base) \div Pow2(32 - len)

\* ipaddress: IPv6 address a in network base/len, for len <= 16
InNet6(a, base, len) == a[1] \div Pow2(16 - len) = base[1] \div Pow2(16 - len)

\* ipaddress.IPv4Address properties
ipv4_is_loopback(a) == InNet4(a, <<127,0,0,0>>, 8)
ipv4_is_link_local(a) == InNet4(a, <<169,254,0,0>>, 16)
ipv4_is_reserved(a) == InNet4(a, <<240,0,0,0>>, 4)
ipv4_is_private(a) ==
  \/ InNet4(a, <<0,0,0,0>>, 8)
  \/ InNet4(a, <<10,0,0,0>>, 8)
  \/ InNet4(a, <<127,0,0,0>>, 8)
  \/ InNet4(a, <<169,254,0,0>>, 16)
  \/ InNet4(a, <<172,16,0,0>>, 12)
  \/ InNet4(a, <<192,0,0,0>>, 29)
  \/ InNet4(a, <<192,0,0,170>>, 31)
  \/ InNet4(a, <<192,0,2,0>>, 24)
  \/ InNet4(a, <<192,168,0,0>>, 16)
  \/ InNet4(a, <<198,18,0,0>>, 15)
  \/ InNet4(a, <<198,51,100,0>>, 24)
  \/ InNet4(a, <<203,0,113,0>>, 24)
  \/ InNet4(a, <<240,0,0,0>>, 4)
  \/ InNet4(a, <<255,255,255,255>>, 32)

LOCALHOST_NAMES ==
  { <<"l","o","c","a","l","h","o","s","t">>,
    <<"1","2","7",".","0",".","0",".","1">>,
    <<":",":","1">> }

\* the try block after the hostname checks: resolve, then test the address
resolved_address_blocked(host) ==
  LET ip == gethostbyname(host)
  IN  /\ ip # gaierror
      /\ \/ ipv4_is_loopback(ip)
         \/ ipv4_is_private(ip)
         \/ ipv4_is_reserved(ip)
         \/ ipv4_is_link_local(ip)
         \/ InNet4(ip, <<127,0,0,0>>, 8)
         \/ InNet4(ip, <<10,0,0,0>>, 8)
         \/ InNet4(ip, <<172,16,0,0>>, 12)
         \/ InNet4(ip, <<192,168,0,0>>, 16)
         \/ InNet4(ip, <<169,254,0,0>>, 16)

is_safe_origin_url(url) ==
  LET parsed == urlparse(url)
      host   == hostname(parsed.netloc)
  IN  IF parsed.scheme \notin {<<"h","t","t","p">>, <<"h","t","t","p","s">>}
      THEN [safe |-> FALSE, reason |-> "Invalid scheme"]
      ELSE IF host = <<>>
      THEN [safe |-> FALSE, reason |-> "Missing hostname"]
      ELSE IF Lower(host) \in LOCALHOST_NAMES
      THEN [safe |-> FALSE, reason |-> "Blocked: localhost access not allowed"]
      ELSE IF resolved_address_blocked(host)
      THEN [safe |-> FALSE, reason |-> "Blocked: address"]
      ELSE [safe |-> TRUE, reason |-> "OK"]

\* the URLs given to the guard: a scheme (or none), a host of the table (or
\* none; an IPv6 literal goes in brackets), and the path "/"
GuardSchemes ==
  { <<"h","t","t","p">>, <<"h","t","t","p","s">>, <<"H","T","T","P">>,
    <<"f","t","p">>, <<>> }
NetlocOf(e) == IF e.kind = "ipv6" THEN <<"[">> \o e.name \o <<"]">> ELSE e.name
NoHost == [name |-> <<>>, kind |-> "none", a |-> NoAddr, aaaa |-> NoAddr]
GuardUrl(scheme, e) ==
  (IF scheme = <<>> THEN <<>> ELSE scheme \o <<":">>) \o <<"/","/">> \o NetlocOf(e) \o <<"/">>


InitGuard ==
  /\ IdleExceptGuard
  /\ g_scheme \in GuardSchemes
  /\ g_host \in HostTable \cup {NoHost}
  /\ g_url = GuardUrl(g_scheme, g_host)
  /\ g_result = [safe |-> FALSE, reason |-> ""]
  /\ g_pc = "url"

CheckUrl ==
  /\ g_pc = "url"
  /\ g_result' = is_safe_origin_url(g_url)
  /\ g_pc' = "checked"
  /\ UNCHANGED <<g_scheme, g_host, g_url>>
  /\ UNCHANGED otherThanGuard

NextGuard == CheckUrl

(***************************************************************************)
(* app/core/rate_limiter.py: InMemoryRateLimiter.  Threads call            *)
(* is_allowed; each statement of its body is a step, the clock advances    *)
(* between any two steps, and "with self.lock" is the only synchronisation.*)
(***************************************************************************)
\* self.max_requests and self.window_seconds of the limiter under test
max_requests == 2
window_seconds == 2
\* threads calling the limiter, and the client IPs they call it for
NumThreads == 2
Threads == 1..NumThreads
ClientIPs == {"ip1", "ip2"}
\* the clock runs from 0 to MaxTime; at most MaxCalls calls are made
MaxTime == window_seconds + 1
MaxCalls == max_requests + 2
NoThread == 0
\* no call has returned yet
NoResult == <<FALSE, 0 - 1>>

\* threading.Lock: free when no thread holds it
LockAvailable_Unlocked(holder) == TRUE

LockAvailable(holder) == holder = NoThread

\* as RecentRequests, with the timestamp at cutoff_time kept
RecentRequests_Inclusive(requests, cutoff_time) ==
  SelectSeq(requests, LAMBDA ts : ts >= cutoff_time)

\* [ts for ts in requests if ts > cutoff_time]
RecentRequests(requests, cutoff_time) ==
  SelectSeq(requests, LAMBDA ts : ts > cutoff_time)

\* min(requests)
OldestRequest(requests) ==
  CHOOSE ts \in {requests[i] : i \in 1..Len(requests)} :
    \A i \in 1..Len(requests) : ts <= requests[i]

\* get_retry_after's result for a request log and a clock reading
RetryAfterOf(requests, current_time) ==
  IF requests = <<>> THEN 0
  ELSE IF window_seconds - (current_time - OldestRequest(requests)) > 0
       THEN window_seconds - (current_time - OldestRequest(requests))
       ELSE 0

InitRL ==
  /\ IdleExceptRL
  /\ rl_now = 0
  /\ rl_lock = NoThread
  /\ request_log = [ip \in ClientIPs |-> <<>>]
  /\ rl_pc = [t \in Threads |-> "idle"]
  /\ rl_ip = [t \in Threads |-> "ip1"]
  /\ rl_time = [t \in Threads |-> 0]
  /\ rl_count = [t \in Threads |-> 0]
  /\ rl_result = [t \in Threads |-> NoResult]
  /\ rl_retry = [t \in Threads |-> 0]
  /\ rl_calls = 0
  /\ rl_admitted = [ip \in ClientIPs |-> <<>>]

\* time passes
Tick ==
  /\ rl_now < MaxTime
  /\ rl_now' = rl_now + 1
  /\ UNCHANGED <<rl_lock, request_log, rl_pc, rl_ip, rl_time, rl_count, rl_result, rl_retry, rl_calls, rl_admitted>>
  /\ UNCHANGED otherThanRL

\* a thread calls is_allowed(client_ip)
CallIsAllowed(t) ==
  /\ rl_pc[t] = "idle"
  /\ rl_calls < MaxCalls
  /\ \E ip \in ClientIPs : rl_ip' = [rl_ip EXCEPT ![t] = ip]
  /\ rl_pc' = [rl_pc EXCEPT ![t] = "enter"]
  /\ rl_result' = [rl_result EXCEPT ![t] = NoResult]
  /\ rl_retry' = [rl_retry EXCEPT ![t] = 0]
  /\ rl_calls' = rl_calls + 1
  /\ UNCHANGED <<rl_now, rl_lock, request_log, rl_time, rl_count, rl_admitted>>
  /\ UNCHANGED otherThanRL

\* with self.lock:
AcquireLock(t) ==
  /\ rl_pc[t] = "enter"
  /\ LockAvailable(rl_lock)
  /\ rl_lock' = t
  /\ rl_pc' = [rl_pc EXCEPT ![t] = "locked"]
  /\ UNCHANGED <<rl_now, request_log, rl_ip, rl_time, rl_count, rl_result, rl_retry, rl_calls, rl_admitted>>
  /\ UNCHANGED otherThanRL

\* lines 47-56: current_time = time.time(); the timestamps at or before
\* cutoff_time are dropped from the IP's log
EvictOld(t) ==
  /\ rl_pc[t] = "locked"
  /\ rl_time' = [rl_time EXCEPT ![t] = rl_now]
  /\ request_log' = [request_log EXCEPT
                       ![rl_ip[t]] = RecentRequests(@, rl_now - window_seconds)]
  /\ rl_pc' = [rl_pc EXCEPT ![t] = "evicted"]
  /\ UNCHANGED <<rl_now, rl_lock, rl_ip, rl_count, rl_result, rl_retry, rl_calls, rl_admitted>>
  /\ UNCHANGED otherThanRL

\* line 59: current_count = len(self.request_log[client_ip])
CountRequests(t) ==
  /\ rl_pc[t] = "evicted"
  /\ rl_count' = [rl_count EXCEPT ![t] = Len(request_log[rl_ip[t]])]
  /\ rl_pc' = [rl_pc EXCEPT ![t] = "counted"]
  /\ UNCHANGED <<rl_now, rl_lock, request_log, rl_ip, rl_time, rl_result, rl_retry, rl_calls, rl_admitted>>
  /\ UNCHANGED otherThanRL

\* lines 61-63: if current_count >= self.max_requests: return False, 0
Deny(t) ==
  /\ rl_pc[t] = "counted"
  /\ rl_count[t] >= max_requests
  /\ rl_result' = [rl_result EXCEPT ![t] = <<FALSE, 0>>]
  /\ rl_pc' = [rl_pc EXCEPT ![t] = "denied"]
  /\ UNCHANGED <<rl_now, rl_lock, request_log, rl_ip, rl_time, rl_count, rl_retry, rl_calls, rl_admitted>>
  /\ UNCHANGED otherThanRL

\* lines 66-71: self.request_log[client_ip].append(current_time);
\* return True, remaining
Admit(t) ==
  /\ rl_pc[t] = "counted"
  /\ rl_count[t] < max_requests
  /\ request_log' = [request_log EXCEPT ![rl_ip[t]] = Append(@, rl_time[t])]
  /\ rl_result' = [rl_result EXCEPT ![t] = <<TRUE, max_requests - (rl_count[t] + 1)>>]
  /\ rl_admitted' = [rl_admitted EXCEPT ![rl_ip[t]] = Append(@, rl_time[t])]
  /\ rl_pc' = [rl_pc EXCEPT ![t] = "admitted"]
  /\ UNCHANGED <<rl_now, rl_lock, rl_ip, rl_time, rl_count, rl_retry, rl_calls>>
  /\ UNCHANGED otherThanRL

\* leaving the with block releases the lock and the call returns (its locals
\* are gone); after a denial proxy_handler goes on to get_retry_after
ReleaseLock(t) ==
  /\ rl_pc[t] \in {"admitted", "denied"}
  /\ rl_lock' = NoThread
  /\ rl_pc' = [rl_pc EXCEPT ![t] = IF rl_pc[t] = "denied" THEN "retry" ELSE "idle"]
  /\ rl_time' = [rl_time EXCEPT ![t] = 0]
  /\ rl_count' = [rl_count EXCEPT ![t] = 0]
  /\ UNCHANGED <<rl_now, request_log, rl_ip, rl_result, rl_retry, rl_calls, rl_admitted>>
  /\ UNCHANGED otherThanRL

\* get_retry_after(client_ip): its whole body runs under the lock and writes
\* nothing shared
GetRetryAfter(t) ==
  /\ rl_pc[t] = "retry"
  /\ LockAvailable(rl_lock)
  /\ rl_retry' = [rl_retry EXCEPT ![t] = RetryAfterOf(request_log[rl_ip[t]], rl_now)]
  /\ rl_pc' = [rl_pc EXCEPT ![t] = "idle"]
  /\ UNCHANGED <<rl_now, rl_lock, request_log, rl_ip, rl_time, rl_count, rl_result, rl_calls, rl_admitted>>
  /\ UNCHANGED otherThanRL

NextRL ==
  \/ Tick
  \/ \E t \in Threads : CallIsAllowed(t)
  \/ \E t \in Threads : AcquireLock(t)
  \/ \E t \in Threads : EvictOld(t)
  \/ \E t \in Threads : CountRequests(t)
  \/ \E t \in Threads : Deny(t)
  \/ \E t \in Threads : Admit(t)
  \/ \E t \in Threads : ReleaseLock(t)
  \/ \E t \in Threads : GetRetryAfter(t)

(***************************************************************************)
(* app/core/cookie_manager.py and the cookie_jars table                    *)
(* (app/models/cookie_jar.py).  A Python dict is the sequence of its       *)
(* <<name, value>> items in insertion order.                               *)
(***************************************************************************)
DictHas(d, k) == \E i \in 1..Len(d) : d[i][1] = k
DictNames(d) == {d[i][1] : i \in 1..Len(d)}

\* d[k] = v: an existing key keeps its place, a new one goes last
DictSet(d, k, v) ==
  IF DictHas(d, k)
  THEN [i \in 1..Len(d) |-> IF d[i][1] = k THEN <<k, v>> ELSE d[i]]
  ELSE Append(d, <<k, v>>)

\* as DictUpdate, but the new cookies replace the stored ones
DictUpdate_Replace(d, e) == e

\* d.update(e)
RECURSIVE DictUpdate(_, _)
DictUpdate(d, e) ==
  IF e = <<>> THEN d ELSE DictUpdate(DictSet(d, Head(e)[1], Head(e)[2]), Tail(e))

\* json.dumps of a dict of strings, as the tokens of the text:
\* { name : value , name : value }
RECURSIVE JsonMembers(_)
JsonMembers(d) ==
  IF d = <<>> THEN <<>>
  ELSE <<Head(d)[1], ":", Head(d)[2]>>
         \o (IF Len(d) > 1 THEN <<",">> ELSE <<>>) \o JsonMembers(Tail(d))
json_dumps(d) == <<"{">> \o JsonMembers(d) \o <<"}">>

\* json.loads of such a text: the members, in order
json_loads(text) ==
  [i \in 1..((Len(text) - 1) \div 4) |-> <<text[4 * i - 2], text[4 * i]>>]

\* as CookiePair, with the attributes of the header kept
CookiePair_Whole(set_cookie) == Strip(set_cookie)

\* set_cookie.split(';')[0].strip()
CookiePair(set_cookie) == Strip(Split1(set_cookie, ";")[1])

\* cookies[name.strip()] = value.strip() for a pair holding '='
WithPair(cookies, cookie_pair) ==
  IF HasChar(cookie_pair, "=")
  THEN DictSet(cookies, Strip(Split1(cookie_pair, "=")[1]), Strip(Split1(cookie_pair, "=")[2]))
  ELSE cookies

\* store_cookies, lines 110-117: the cookies of a list of Set-Cookie headers
RECURSIVE CookiesFrom(_, _)
CookiesFrom(cookies, set_cookie_headers) ==
  IF set_cookie_headers = <<>> THEN cookies
  ELSE CookiesFrom(WithPair(cookies, CookiePair(Head(set_cookie_headers))),
                   Tail(set_cookie_headers))
ParseSetCookies(set_cookie_headers) == CookiesFrom(<<>>, set_cookie_headers)

\* select(CookieJar).where(site_id, session_id, origin_host): the ids of the rows
RowsOf(table, key) == {i \in 1..Len(table) : table[i].key = key}

\* result.scalar_one_or_none(): Some(id), None, or Raised (MultipleResultsFound)
scalar_one_or_none(ids) ==
  IF ids = {} THEN None
  ELSE IF Cardinality(ids) = 1 THEN Some(CHOOSE i \in ids : TRUE)
  ELSE Raised

\* store_cookies, lines 132-152: the cookie_data written for the row read
\* (existing: its cookie_data when it was read, None when there was no row)
MergedCookieData(existing, cookies) ==
  IF existing = None THEN json_dumps(cookies)
  ELSE json_dumps(DictUpdate(json_loads(existing[2]), cookies))

\* db.commit() of store_cookies: UPDATE of the row read, or INSERT of a new row
CommitStore(table, key, row, cookie_data) ==
  IF row = None THEN Append(table, [key |-> key, cookie_data |-> cookie_data])
  ELSE [table EXCEPT ![row[2]].cookie_data = cookie_data]

\* get_cookies: Some(dict), or Raised when scalar_one_or_none raises
get_cookies(table, key) ==
  IF scalar_one_or_none(RowsOf(table, key)) = Raised THEN Raised
  ELSE IF scalar_one_or_none(RowsOf(table, key)) = None THEN Some(<<>>)
  ELSE Some(json_loads(table[CHOOSE i \in RowsOf(table, key) : TRUE].cookie_data))

\* store_cookies run without suspension: the table afterwards
StoredTable(table, key, cookies, row) ==
  CommitStore(table, key, row,
              MergedCookieData(IF row = None THEN None ELSE Some(table[row[2]].cookie_data),
                               cookies))
store_cookies(table, key, set_cookie_headers) ==
  IF ParseSetCookies(set_cookie_headers) = <<>> THEN table
  ELSE StoredTable(table, key, ParseSetCookies(set_cookie_headers),
                   scalar_one_or_none(RowsOf(table, key)))

\* "; ".join(f"{name}={value}" ...)
RECURSIVE build_cookie_header(_)
build_cookie_header(cookies) ==
  IF cookies = <<>> THEN <<>>
  ELSE Head(cookies)[1] \o <<"=">> \o Head(cookies)[2]
         \o (IF Len(cookies) > 1 THEN <<";", " ">> ELSE <<>>)
         \o build_cookie_header(Tail(cookies))

\* Set-Cookie headers of origin responses
SetCookie_a1 == <<"a","=","1",";"," ","P","a","t","h","=","/">>
SetCookie_b2 == <<"b","=","2">>
SetCookie_a3 == <<"a","=","3">>
SetCookie_c4 == <<" ","c"," ","="," ","4"," ",";","x">>
SetCookie_flag == <<"f","l","a","g">>
SetCookieLists ==
  { <<>>, <<SetCookie_a1>>, <<SetCookie_b2>>, <<SetCookie_a3, SetCookie_b2>>,
    <<SetCookie_c4, SetCookie_flag>>, <<SetCookie_flag>> }

(***************************************************************************)
(* Concurrent store_cookies calls, each on its own database session: the   *)
(* coroutine is suspended at "await db.execute" and at "await db.commit",  *)
(* and other calls run in between.                                         *)
(***************************************************************************)
NumStoreCalls == 3
StoreCalls == 1..NumStoreCalls
JarKeys ==
  { [site_id |-> 1, session_id |-> <<"a">>, origin_host |-> <<"s",".","c">>],
    [site_id |-> 1, session_id |-> <<"b">>, origin_host |-> <<"s",".","c">>] }
NoKey == [site_id |-> 0, session_id |-> <<>>, origin_host |-> <<>>]

InitStore ==
  /\ IdleExceptStore
  /\ cookie_jars = <<>>
  /\ st_pc = [c \in StoreCalls |-> "idle"]
  /\ st_key = [c \in StoreCalls |-> NoKey]
  /\ st_cookies = [c \in StoreCalls |-> <<>>]
  /\ st_row = [c \in StoreCalls |-> None]
  /\ st_data = [c \in StoreCalls |-> <<>>]
  /\ st_got = [key |-> NoKey, result |-> None, settled |-> FALSE]

\* store_cookies is called; lines 104-120 parse the headers and return when
\* they hold no cookie
StoreParse(c) ==
  /\ st_pc[c] = "idle"
  /\ \E key \in JarKeys, headers \in SetCookieLists :
       /\ st_key' = [st_key EXCEPT ![c] = key]
       /\ st_cookies' = [st_cookies EXCEPT ![c] = ParseSetCookies(headers)]
       /\ st_pc' = [st_pc EXCEPT ![c] =
                      IF ParseSetCookies(headers) = <<>> THEN "returned" ELSE "select"]
  /\ UNCHANGED <<cookie_jars, st_row, st_data, st_got>>
  /\ UNCHANGED otherThanStore

\* lines 123-130: await db.execute(select ...); scalar_one_or_none()
StoreSelect(c) ==
  /\ st_pc[c] = "select"
  /\ st_row' = [st_row EXCEPT ![c] = scalar_one_or_none(RowsOf(cookie_jars, st_key[c]))]
  /\ st_data' = [st_data EXCEPT ![c] =
                   IF Cardinality(RowsOf(cookie_jars, st_key[c])) = 1
                   THEN cookie_jars[CHOOSE i \in RowsOf(cookie_jars, st_key[c]) : TRUE].cookie_data
                   ELSE <<>>]
  /\ st_pc' = [st_pc EXCEPT ![c] =
                 IF scalar_one_or_none(RowsOf(cookie_jars, st_key[c])) = Raised
                 THEN "raised" ELSE "merge"]
  /\ UNCHANGED <<cookie_jars, st_key, st_cookies, st_got>>
  /\ UNCHANGED otherThanStore

\* lines 132-152: merge into the row read, or build a new row, in memory
StoreMerge(c) ==
  /\ st_pc[c] = "merge"
  /\ st_data' = [st_data EXCEPT ![c] =
                   MergedCookieData(IF st_row[c] = None THEN None ELSE Some(st_data[c]),
                                    st_cookies[c])]
  /\ st_pc' = [st_pc EXCEPT ![c] = "commit"]
  /\ UNCHANGED <<cookie_jars, st_key, st_cookies, st_row, st_got>>
  /\ UNCHANGED otherThanStore

\* line 154: await db.commit()
StoreCommit(c) ==
  /\ st_pc[c] = "commit"
  /\ cookie_jars' = CommitStore(cookie_jars, st_key[c], st_row[c], st_data[c])
  /\ st_pc' = [st_pc EXCEPT ![c] = "returned"]
  /\ UNCHANGED <<st_key, st_cookies, st_row, st_data, st_got>>
  /\ UNCHANGED otherThanStore

StoreCallsCompleted == \A c \in StoreCalls : st_pc[c] \in {"returned", "raised"}

\* get_cookies(site_id, session_id, origin_host)
GetCookies(key) ==
  /\ st_got' = [key |-> key, result |-> get_cookies(cookie_jars, key),
                settled |-> StoreCallsCompleted]
  /\ UNCHANGED <<cookie_jars, st_pc, st_key, st_cookies, st_row, st_data>>
  /\ UNCHANGED otherThanStore

NextStore ==
  \/ \E c \in StoreCalls : StoreParse(c)
  \/ \E c \in StoreCalls : StoreSelect(c)
  \/ \E c \in StoreCalls : StoreMerge(c)
  \/ \E c \in StoreCalls : StoreCommit(c)
  \/ \E key \in JarKeys : GetCookies(key)

(***************************************************************************)
(* app/core/config_helper.py.  A column value is None or Some(value).      *)
(***************************************************************************)
ConfigFields ==
  { "proxy_subdomains", "proxy_external_domains", "rewrite_js_redirects", "remove_ads",
    "inject_ads", "remove_analytics", "media_policy", "session_mode", "custom_ad_html",
    "custom_tracker_js" }

BooleanFields ==
  { "proxy_subdomains", "proxy_external_domains", "rewrite_js_redirects", "remove_ads",
    "inject_ads", "remove_analytics" }

\* Python truth of a column value: not None, not False, not ""
TruthyValue(f, value) ==
  /\ value # None
  /\ IF f \in BooleanFields THEN value[2] ELSE value[2] # ""

\* as get_effective_config, with "site.x or global_config.x" for every field:
\* a site value of False or "" falls back to the global one
get_effective_config_Truthy(site, global_config) ==
  [f \in ConfigFields |-> IF TruthyValue(f, site[f]) THEN site[f] ELSE global_config[f]]

\* get_effective_config, lines 19-30
get_effective_config(site, global_config) ==
  [proxy_subdomains |->
     IF site.proxy_subdomains # None THEN site.proxy_subdomains
     ELSE global_config.proxy_subdomains,
   proxy_external_domains |->
     IF site.proxy_external_domains # None THEN site.proxy_external_domains
     ELSE global_config.proxy_external_domains,
   rewrite_js_redirects |->
     IF site.rewrite_js_redirects # None THEN site.rewrite_js_redirects
     ELSE global_config.rewrite_js_redirects,
   remove_ads |->
     IF site.remove_ads # None THEN site.remove_ads ELSE global_config.remove_ads,
   inject_ads |->
     IF site.inject_ads # None THEN site.inject_ads ELSE global_config.inject_ads,
   remove_analytics |->
     IF site.remove_analytics # None THEN site.remove_analytics
     ELSE global_config.remove_analytics,
   media_policy |->
     IF site.media_policy # None THEN site.media_policy ELSE global_config.media_policy,
   session_mode |->
     IF site.session_mode # None THEN site.session_mode ELSE global_config.session_mode,
   custom_ad_html |->
     IF site.custom_ad_html # None THEN site.custom_ad_html
     ELSE global_config.custom_ad_html,
   custom_tracker_js |->
     IF site.custom_tracker_js # None THEN site.custom_tracker_js
     ELSE global_config.custom_tracker_js]

\* models/site.py lines 19-28: every configuration column of a site is nullable
UnsetSiteConfig == [f \in ConfigFields |-> None]
\* models/global_config.py lines 15-24: the defaults of the global row
DefaultGlobalConfig ==
  [proxy_subdomains |-> Some(TRUE), proxy_external_domains |-> Some(TRUE),
   rewrite_js_redirects |-> Some(FALSE), remove_ads |-> Some(FALSE),
   inject_ads |-> Some(FALSE), remove_analytics |-> Some(FALSE),
   media_policy |-> Some("proxy"), session_mode |-> Some("stateless"),
   custom_ad_html |-> None, custom_tracker_js |-> None]

\* the values a column of a site takes in the model
OptionalFlags == { None, Some(FALSE), Some(TRUE) }
OptionalPolicies == { None, Some(""), Some("bypass") }
OptionalModes == { None, Some(""), Some("cookie_jar") }
OptionalTexts == { None, Some(""), Some("<p>ad</p>") }
SiteConfigs ==
  [proxy_subdomains : OptionalFlags, proxy_external_domains : OptionalFlags,
   rewrite_js_redirects : OptionalFlags, remove_ads : OptionalFlags,
   inject_ads : OptionalFlags, remove_analytics : OptionalFlags,
   media_policy : OptionalPolicies, session_mode : OptionalModes,
   custom_ad_html : OptionalTexts, custom_tracker_js : OptionalTexts]
\* two global rows: the defaults, and every default changed
GlobalConfigs ==
  { DefaultGlobalConfig,
    [proxy_subdomains |-> Some(FALSE), proxy_external_domains |-> Some(FALSE),
     rewrite_js_redirects |-> Some(TRUE), remove_ads |-> Some(TRUE),
     inject_ads |-> Some(TRUE), remove_analytics |-> Some(TRUE),
     media_policy |-> Some("size_limited"), session_mode |-> Some("cookie_jar"),
     custom_ad_html |-> Some("<b>g</b>"), custom_tracker_js |-> Some("t()")] }

InitConfig ==
  /\ IdleExceptConfig
  /\ cf_site \in SiteConfigs
  /\ cf_global \in GlobalConfigs
  /\ cf_result = None
  /\ cf_pc = "call"

\* effective_config = get_effective_config(site, global_config)
GetEffectiveConfig ==
  /\ cf_pc = "call"
  /\ cf_result' = Some(get_effective_config(cf_site, cf_global))
  /\ cf_pc' = "returned"
  /\ UNCHANGED <<cf_site, cf_global>>
  /\ UNCHANGED otherThanConfig

NextConfig == GetEffectiveConfig

(***************************************************************************)
(* app/proxy/router.py: proxy_handler and proxy_request.  The user agent   *)
(* sends one request after the other; each statement group of the handler  *)
(* is a step.  The origin answers as it likes.  The requests of a          *)
(* behaviour arrive within one rate-limit window (the clock stands at      *)
(* p_now); the sliding of the window is the subject of SpecRL.             *)
(***************************************************************************)
\* requests handled in one behaviour
MaxRequests == 3

ADMIN_HOST == <<"0",".","0",".","0",".","0">>
MAX_RESPONSE_SIZE_MB == 15

\* the sites table
Sites == <<TheSite>>

\* find_site_by_host: the host without its port
HostWithoutPort(host) == IF HasChar(host, ":") THEN Split1(host, ":")[1] ELSE host
\* line 91: select(Site).where(Site.enabled == True), in the order of the rows
EnabledSites(db) == SelectSeq(db, LAMBDA site : site.enabled)
\* lines 100, 104: the exact match and the sub-domain match of one site
SiteMatches(host_without_port, site) ==
  \/ host_without_port = site.mirror_root
  \/ EndsWith(host_without_port, Dot(site.mirror_root))
MatchingSites(host_without_port, sites) ==
  {i \in 1..Len(sites) : SiteMatches(host_without_port, sites[i])}
\* lines 96-107: the first site of the loop that matches either way
find_site_by_host(host, db) ==
  IF MatchingSites(HostWithoutPort(host), EnabledSites(db)) = {} THEN None
  ELSE Some(EnabledSites(db)[MinOf(MatchingSites(HostWithoutPort(host), EnabledSites(db)))])

\* proxy_request lines 238-249: the effective configuration of the site and
\* the global row whose session_mode columns are p_cfg
EffectiveConfig ==
  [session_mode |->
     get_effective_config([UnsetSiteConfig EXCEPT !.session_mode = p_cfg[1]],
                          [DefaultGlobalConfig EXCEPT !.session_mode = Some(p_cfg[2])]
                         ).session_mode[2]]

\* proxy_handler line 581: the admin host is not proxied
IsAdminHost(host) ==
  \/ host = ADMIN_HOST
  \/ StartsWith(host, <<"0",".","0",".","0",".","0">>)
  \/ StartsWith(host, <<"l","o","c","a","l","h","o","s","t">>)

\* as SsrfBlocked, with the guard's verdict ignored
SsrfBlocked_Never(is_safe) == FALSE

\* proxy_handler line 615: if not is_safe
SsrfBlocked(is_safe) == ~is_safe

\* Python truth of an Optional[str]: not None and not empty
Truthy(opt) == opt # None /\ opt[2] # <<>>

\* as MustMint, minting a session for every request
MustMint_Always(session_id) == TRUE

\* proxy_request line 263: if not session_id
MustMint(session_id) == ~Truthy(session_id)

\* proxy_request lines 257-261: the session id of the cookie presented
PresentedSession(signed_session_id) ==
  IF Truthy(signed_session_id) THEN verify_session_id(signed_session_id[2]) ELSE None

\* proxy_request lines 255-267 with the token generate_session_id returns:
\* signed_session_id, session_id, new_session_created
AcquireSession(session_mode, cookie, token) ==
  IF session_mode # "cookie_jar"
  THEN [signed |-> None, id |-> None, new |-> FALSE]
  ELSE IF MustMint(PresentedSession(cookie))
       THEN [signed |-> Some(sign_session_id(token)),
             id |-> verify_session_id(sign_session_id(token)), new |-> TRUE]
       ELSE [signed |-> cookie, id |-> PresentedSession(cookie), new |-> FALSE]

\* sub in s
Contains(s, sub) ==
  \E i \in 1..(Len(s) - Len(sub) + 1) : SubSeq(s, i, i + Len(sub) - 1) = sub

\* int(s) for a string of digits
DigitValue(c) ==
  CASE c = "0" -> 0 [] c = "1" -> 1 [] c = "2" -> 2 [] c = "3" -> 3 [] c = "4" -> 4
    [] c = "5" -> 5 [] c = "6" -> 6 [] c = "7" -> 7 [] c = "8" -> 8 [] OTHER -> 9
RECURSIVE ParseInt(_)
ParseInt(s) ==
  IF s = <<>> THEN 0 ELSE 10 * ParseInt(Take(s, Len(s) - 1)) + DigitValue(s[Len(s)])

\* proxy_request lines 353-355
IsMediaType(content_type) ==
  \/ Contains(Lower(content_type), <<"i","m","a","g","e","/">>)
  \/ Contains(Lower(content_type), <<"v","i","d","e","o","/">>)
  \/ Contains(Lower(content_type), <<"a","u","d","i","o","/">>)
  \/ Contains(Lower(content_type),
              <<"a","p","p","l","i","c","a","t","i","o","n","/","o","c","t","e","t","-",
                "s","t","r","e","a","m">>)

\* as TooLarge, rejecting a length equal to the limit as well
TooLarge_AtLimit(content_type, content_length) ==
  /\ ~IsMediaType(content_type)
  /\ Truthy(content_length)
  /\ ParseInt(content_length[2]) >= MAX_RESPONSE_SIZE_MB * 1024 * 1024

\* proxy_request lines 357-358
TooLarge(content_type, content_length) ==
  /\ ~IsMediaType(content_type)
  /\ Truthy(content_length)
  /\ ParseInt(content_length[2]) > MAX_RESPONSE_SIZE_MB * 1024 * 1024

\* normalize_redirect_location
normalize_redirect_location(location, origin_url) ==
  IF location = <<>> THEN location
  ELSE IF StartsWith(location, HTTP) \/ StartsWith(location, HTTPS) THEN location
       ELSE urljoin(origin_url, location)

\* proxy_request lines 386-388: the response is answered as a redirect
IsRedirect(response) ==
  300 <= response.status /\ response.status < 400 /\ Truthy(response.location)

\* proxy_request lines 414, 479, 512: the px_session_id cookie of the response
SessionCookieFor(session) ==
  IF session.new /\ Truthy(session.id) THEN session.signed ELSE None

\* as JarKey, with the site's source root for every origin host
JarKey_SourceRoot(site, session_id, origin_url) ==
  [site_id |-> site.id, session_id |-> session_id, origin_host |-> site.source_root]

\* the (site_id, session_id, origin_host) of the jar row of a request
JarKey(site, session_id, origin_url) ==
  [site_id |-> site.id, session_id |-> session_id,
   origin_host |-> hostname(urlparse(origin_url).netloc)]

(***************************************************************************)
(* What arrives: requests of the user agent, responses of the origin.      *)
(***************************************************************************)
ProxyHosts ==
  { MirrorRoot, <<"x">> \o Dot(MirrorRoot), ADMIN_HOST, <<"o",".","c">> }
\* the path parameter of the route: "" and an encoded external host that
\* resolves to a private address
ProxyPaths == { <<>>, <<"i","n","t","r","a","n","e","t",".","c","/">> }
\* px_session_id: none, a signed token, a token with a wrong signature, and
\* the signed empty token
PresentedCookies ==
  { None, Some(sign_session_id(<<"a">>)) }
    \cup { Some(<<"a",".","b","b">>), Some(sign_session_id(<<>>)) }
ProxyClientIPs == ClientIPs

ContentType_html == <<"t","e","x","t","/","h","t","m","l">>
ContentType_json == <<"a","p","p","l","i","c","a","t","i","o","n","/","j","s","o","n">>
ContentType_png == <<"I","m","a","g","e","/","p","n","g">>
NoResponse == [error |-> FALSE, status |-> 0, content_type |-> <<>>,
               content_length |-> None, set_cookie |-> <<>>, location |-> None]
OriginResponses ==
  { [error |-> TRUE, status |-> 0, content_type |-> <<>>,
     content_length |-> None, set_cookie |-> <<>>, location |-> None],
    [error |-> FALSE, status |-> 200, content_type |-> ContentType_html,
     content_length |-> None, set_cookie |-> <<SetCookie_a1>>, location |-> None],
    [error |-> FALSE, status |-> 404, content_type |-> ContentType_json,
     content_length |-> Some(<<"1","0">>), set_cookie |-> <<SetCookie_b2>>,
     location |-> None],
    [error |-> FALSE, status |-> 302, content_type |-> <<>>,
     content_length |-> None, set_cookie |-> <<SetCookie_a3, SetCookie_b2>>,
     location |-> Some(<<"/","n">>)],
    [error |-> FALSE, status |-> 302, content_type |-> ContentType_html,
     content_length |-> None, set_cookie |-> <<>>, location |-> None],
    [error |-> FALSE, status |-> 200, content_type |-> ContentType_html,
     content_length |-> Some(<<"9","9","9","9","9","9","9","9">>),
     set_cookie |-> <<SetCookie_b2>>, location |-> None],
    [error |-> FALSE, status |-> 200, content_type |-> ContentType_png,
     content_length |-> Some(<<"9","9","9","9","9","9","9","9">>),
     set_cookie |-> <<>>, location |-> None] }

ConfigPairs ==
  { <<None, "stateless">>, <<Some("cookie_jar"), "stateless">>,
    <<Some("stateless"), "cookie_jar">> }

\* the triples a jar row can have
ProxyJarKeys ==
  [site_id : {TheSite.id}, session_id : UrlSafeTokens,
   origin_host : {SourceRoot, <<"x">> \o Dot(SourceRoot)}]

\* the name=value pairs a list of Set-Cookie headers adds to the pairs
\* accumulated so far: of each header the text before the first ';', trimmed,
\* when it holds '='; a later value of a name replaces the earlier one
PairText(header) ==
  Strip(IF Find(header, ";") = 0 THEN header ELSE Take(header, Find(header, ";") - 1))
AccumulatePair(pairs, text) ==
  IF Find(text, "=") = 0 THEN pairs
  ELSE DictSet(pairs, Strip(Take(text, Find(text, "=") - 1)), Strip(Drop(text, Find(text, "="))))
RECURSIVE Accumulate(_, _)
Accumulate(pairs, headers) ==
  IF headers = <<>> THEN pairs
  ELSE Accumulate(AccumulatePair(pairs, PairText(Head(headers))), Tail(headers))

NoRequest == [host |-> <<>>, path |-> <<>>, cookie |-> None]
NoSessionYet == [signed |-> None, id |-> None, new |-> FALSE]
NoReply == [status |-> 0, own |-> FALSE, kind |-> "none", session_cookie |-> None,
            location |-> None]
\* a log record: its level and the status_code of its extra fields
LogEvent(level, status_code) == [level |-> level, status_code |-> status_code]
NothingDone == [minted |-> FALSE, jar_reads |-> 0, jar_writes |-> 0, events |-> <<>>]
OwnReply(status, kind) ==
  [status |-> status, own |-> TRUE, kind |-> kind, session_cookie |-> None,
   location |-> None]

InitProxy ==
  /\ IdleExceptProxy
  /\ p_cfg \in ConfigPairs
  /\ p_now = 0
  /\ p_request_log = [ip \in ProxyClientIPs |-> <<>>]
  /\ p_jar = <<>>
  /\ p_served = 0
  /\ p_proxied = [key \in ProxyJarKeys |-> <<>>]
  /\ p_pc = "idle"
  /\ p_request = NoRequest
  /\ p_site = None
  /\ p_origin_url = <<>>
  /\ p_session = NoSessionYet
  /\ p_cookie_header = None
  /\ p_upstream = None
  /\ p_response = NoResponse
  /\ p_reply = NoReply
  /\ p_did = NothingDone

\* the user agent sends a request and proxy_handler starts; lines 550-578:
\* is_allowed for the client's IP, 429 when it denies.  (The fields of the
\* request are drawn where the handler first uses them.)
Arrive ==
  /\ p_pc = "idle"
  /\ p_served < MaxRequests
  /\ p_served' = p_served + 1
  /\ \E host \in ProxyHosts, client_ip \in ProxyClientIPs :
       /\ p_request' = [host |-> host, path |-> <<>>, cookie |-> None]
       /\ IF Len(RecentRequests(p_request_log[client_ip], p_now - window_seconds))
               >= max_requests
          THEN /\ p_request_log' =
                    [p_request_log EXCEPT ![client_ip] =
                       RecentRequests(@, p_now - window_seconds)]
               /\ p_reply' = OwnReply(429, "rate_limited")
               /\ p_did' = [p_did EXCEPT !.events = Append(@, LogEvent("warning", 429))]
               /\ p_pc' = "respond"
          ELSE /\ p_request_log' =
                    [p_request_log EXCEPT ![client_ip] =
                       Append(RecentRequests(@, p_now - window_seconds), p_now)]
               /\ p_reply' = p_reply
               /\ p_did' = p_did
               /\ p_pc' = "admin_check"
  /\ UNCHANGED <<p_cfg, p_now, p_jar, p_proxied, p_site, p_origin_url, p_session, p_cookie_header, p_upstream, p_response>>
  /\ UNCHANGED otherThanProxy

\* lines 581-585: 404 on the admin host, without a log record
AdminCheck ==
  /\ p_pc = "admin_check"
  /\ IF IsAdminHost(p_request.host)
     THEN p_reply' = OwnReply(404, "not_found") /\ p_pc' = "respond"
     ELSE p_reply' = p_reply /\ p_pc' = "find_site"
  /\ UNCHANGED <<p_cfg, p_now, p_request_log, p_jar, p_served, p_proxied, p_request, p_site, p_origin_url, p_session, p_cookie_header, p_upstream, p_response, p_did>>
  /\ UNCHANGED otherThanProxy

\* lines 588-597: 404 when no site matches the host
FindSite ==
  /\ p_pc = "find_site"
  /\ p_site' = find_site_by_host(p_request.host, Sites)
  /\ IF find_site_by_host(p_request.host, Sites) = None
     THEN /\ p_reply' = OwnReply(404, "no_site")
          /\ p_did' = [p_did EXCEPT !.events = Append(@, LogEvent("warning", 404))]
          /\ p_pc' = "respond"
     ELSE p_reply' = p_reply /\ p_did' = p_did /\ p_pc' = "build_origin"
  /\ UNCHANGED <<p_cfg, p_now, p_request_log, p_jar, p_served, p_proxied, p_request, p_origin_url, p_session, p_cookie_header, p_upstream, p_response>>
  /\ UNCHANGED otherThanProxy

\* lines 600-611
BuildOriginUrl ==
  /\ p_pc = "build_origin"
  /\ \E path \in ProxyPaths :
       /\ p_request' = [p_request EXCEPT !.path = path]
       /\ p_origin_url' = build_origin_url(Split1(p_request.host, ":")[1],
                                           MirrorPath(path),
                                           p_site[2].source_root, p_site[2].mirror_root)
  /\ p_pc' = "ssrf_check"
  /\ UNCHANGED <<p_cfg, p_now, p_request_log, p_jar, p_served, p_proxied, p_site, p_session, p_cookie_header, p_upstream, p_response, p_reply, p_did>>
  /\ UNCHANGED otherThanProxy

\* lines 614-628: 403 when the guard rejects the origin URL
SsrfCheck ==
  /\ p_pc = "ssrf_check"
  /\ IF SsrfBlocked(is_safe_origin_url(p_origin_url).safe)
     THEN /\ p_reply' = OwnReply(403, "blocked")
          /\ p_did' = [p_did EXCEPT !.events = Append(@, LogEvent("warning", 403))]
          /\ p_pc' = "respond"
     ELSE p_reply' = p_reply /\ p_did' = p_did /\ p_pc' = "session"
  /\ UNCHANGED <<p_cfg, p_now, p_request_log, p_jar, p_served, p_proxied, p_request, p_site, p_origin_url, p_session, p_cookie_header, p_upstream, p_response>>
  /\ UNCHANGED otherThanProxy

\* proxy_request lines 238-267: effective configuration, session
Session ==
  /\ p_pc = "session"
  /\ \E cookie \in PresentedCookies, token \in UrlSafeTokens :
       /\ p_request' = [p_request EXCEPT !.cookie = cookie]
       /\ p_session' = AcquireSession(EffectiveConfig.session_mode, cookie, token)
  /\ p_did' = [p_did EXCEPT !.minted = p_session'.new]
  /\ p_pc' = "inject"
  /\ UNCHANGED <<p_cfg, p_now, p_request_log, p_jar, p_served, p_proxied, p_site, p_origin_url, p_cookie_header, p_upstream, p_response, p_reply>>
  /\ UNCHANGED otherThanProxy

\* lines 291-301: the jar's cookies become the Cookie header; an exception of
\* get_cookies leaves the handler
InjectCookies ==
  /\ p_pc = "inject"
  /\ IF Truthy(p_session.id) /\ EffectiveConfig.session_mode = "cookie_jar"
     THEN /\ p_did' = [p_did EXCEPT !.jar_reads = @ + 1]
          /\ IF get_cookies(p_jar, JarKey(p_site[2], p_session.id[2], p_origin_url)) = Raised
             THEN /\ p_cookie_header' = None
                  /\ p_reply' = OwnReply(500, "exception")
                  /\ p_pc' = "respond"
             ELSE /\ p_cookie_header' =
                       IF get_cookies(p_jar, JarKey(p_site[2], p_session.id[2], p_origin_url))[2] # <<>>
                       THEN Some(build_cookie_header(
                              get_cookies(p_jar, JarKey(p_site[2], p_session.id[2], p_origin_url))[2]))
                       ELSE None
                  /\ p_reply' = p_reply
                  /\ p_pc' = "dispatch"
     ELSE /\ p_did' = p_did
          /\ p_cookie_header' = None
          /\ p_reply' = p_reply
          /\ p_pc' = "dispatch"
  /\ UNCHANGED <<p_cfg, p_now, p_request_log, p_jar, p_served, p_proxied, p_request, p_site, p_origin_url, p_session, p_upstream, p_response>>
  /\ UNCHANGED otherThanProxy

\* lines 314-342: the upstream request is sent; 502 when it fails
Dispatch ==
  /\ p_pc = "dispatch"
  /\ p_upstream' = Some([url |-> p_origin_url, cookie |-> p_cookie_header])
  /\ \E response \in OriginResponses :
       /\ p_response' = response
       /\ IF response.error
          THEN /\ p_reply' = OwnReply(502, "bad_gateway")
               /\ p_did' = [p_did EXCEPT !.events = Append(@, LogEvent("error", 502))]
               /\ p_pc' = "respond"
          ELSE p_reply' = p_reply /\ p_did' = p_did /\ p_pc' = "size_check"
  /\ UNCHANGED <<p_cfg, p_now, p_request_log, p_jar, p_served, p_proxied, p_request, p_site, p_origin_url, p_session, p_cookie_header>>
  /\ UNCHANGED otherThanProxy

\* lines 347-373: 413 for a large response that is not media
SizeCheck ==
  /\ p_pc = "size_check"
  /\ IF TooLarge(p_response.content_type, p_response.content_length)
     THEN /\ p_reply' = OwnReply(413, "too_large")
          /\ p_did' = [p_did EXCEPT !.events = Append(@, LogEvent("warning", 413))]
          /\ p_pc' = "respond"
     ELSE p_reply' = p_reply /\ p_did' = p_did /\ p_pc' = "store"
  /\ UNCHANGED <<p_cfg, p_now, p_request_log, p_jar, p_served, p_proxied, p_request, p_site, p_origin_url, p_session, p_cookie_header, p_upstream, p_response>>
  /\ UNCHANGED otherThanProxy

\* lines 375-383: the response's Set-Cookie headers go to the jar
\* (store_cookies returns after its commit)
StoreCookies ==
  /\ p_pc = "store"
  /\ IF /\ Truthy(p_session.id) /\ EffectiveConfig.session_mode = "cookie_jar"
        /\ p_response.set_cookie # <<>>
     THEN /\ p_did' = [p_did EXCEPT !.jar_writes = @ + 1]
          /\ IF scalar_one_or_none(
                  RowsOf(p_jar, JarKey(p_site[2], p_session.id[2], p_origin_url))) = Raised
             THEN /\ p_jar' = p_jar
                  /\ p_reply' = OwnReply(500, "exception")
                  /\ p_pc' = "respond"
             ELSE /\ p_jar' = store_cookies(p_jar,
                                 JarKey(p_site[2], p_session.id[2], p_origin_url),
                                 p_response.set_cookie)
                  /\ p_reply' = p_reply
                  /\ p_pc' = "build_response"
     ELSE /\ p_did' = p_did
          /\ p_jar' = p_jar
          /\ p_reply' = p_reply
          /\ p_pc' = "build_response"
  /\ UNCHANGED <<p_cfg, p_now, p_request_log, p_served, p_proxied, p_request, p_site, p_origin_url, p_session, p_cookie_header, p_upstream, p_response>>
  /\ UNCHANGED otherThanProxy

\* lines 385-535: the redirect, HTML or other response, with the session
\* cookie of a new session, and its info log record
BuildResponse ==
  /\ p_pc = "build_response"
  /\ p_reply' =
       [status |-> p_response.status,
        own |-> FALSE,
        kind |-> IF IsRedirect(p_response) THEN "redirect"
                 ELSE IF Contains(Lower(p_response.content_type), ContentType_html)
                      THEN "html" ELSE "other",
        session_cookie |-> SessionCookieFor(p_session),
        location |-> IF IsRedirect(p_response)
                     THEN Some(map_origin_url_to_mirror(
                                 normalize_redirect_location(p_response.location[2],
                                                             p_origin_url),
                                 p_site[2], p_request.host))
                     ELSE None]
  /\ p_did' = [p_did EXCEPT !.events = Append(@, LogEvent("info", p_response.status))]
  /\ p_pc' = "respond"
  /\ UNCHANGED <<p_cfg, p_now, p_request_log, p_jar, p_served, p_proxied, p_request, p_site, p_origin_url, p_session, p_cookie_header, p_upstream, p_response>>
  /\ UNCHANGED otherThanProxy

\* the response reaches the user agent and the handler's locals are gone
Respond ==
  /\ p_pc = "respond"
  /\ p_proxied' =
       IF /\ ~p_reply.own /\ EffectiveConfig.session_mode = "cookie_jar"
          /\ Truthy(p_session.id)
       THEN [p_proxied EXCEPT ![JarKey(p_site[2], p_session.id[2], p_origin_url)] =
               Accumulate(@, p_response.set_cookie)]
       ELSE p_proxied
  /\ p_request' = NoRequest
  /\ p_site' = None
  /\ p_origin_url' = <<>>
  /\ p_session' = NoSessionYet
  /\ p_cookie_header' = None
  /\ p_upstream' = None
  /\ p_response' = NoResponse
  /\ p_reply' = NoReply
  /\ p_did' = NothingDone
  /\ p_pc' = "idle"
  /\ UNCHANGED <<p_cfg, p_now, p_request_log, p_jar, p_served>>
  /\ UNCHANGED otherThanProxy

NextProxy ==
  \/ Arrive
  \/ AdminCheck
  \/ FindSite
  \/ BuildOriginUrl
  \/ SsrfCheck
  \/ Session
  \/ InjectCookies
  \/ Dispatch
  \/ SizeCheck
  \/ StoreCookies
  \/ BuildResponse
  \/ Respond

(***************************************************************************)
(* app/proxy/router.py, proxy_request with its headers: one request of the *)
(* user agent that proxy_handler hands to proxy_request, the headers sent  *)
(* upstream, the origin's response headers, the headers of the response to *)
(* the user agent, and the log events.                                     *)
(***************************************************************************)
STRIP_HEADERS ==
  { <<"s","e","t","-","c","o","o","k","i","e">>, <<"c","o","n","t","e","n","t","-","s","e","c","u","r","i","t","y","-","p","o","l","i","c","y">>, <<"s","t","r","i","c","t","-","t","r","a","n","s","p","o","r","t","-","s","e","c","u","r","i","t","y">>,
    <<"x","-","f","r","a","m","e","-","o","p","t","i","o","n","s">>, <<"a","c","c","e","s","s","-","c","o","n","t","r","o","l","-","a","l","l","o","w","-","o","r","i","g","i","n">>, <<"c","o","n","t","e","n","t","-","e","n","c","o","d","i","n","g">>,
    <<"t","r","a","n","s","f","e","r","-","e","n","c","o","d","i","n","g">>, <<"c","o","n","t","e","n","t","-","l","e","n","g","t","h">> }
FORWARD_HEADERS ==
  << <<"u","s","e","r","-","a","g","e","n","t">>, <<"a","c","c","e","p","t">>, <<"a","c","c","e","p","t","-","l","a","n","g","u","a","g","e">>, <<"a","c","c","e","p","t","-","e","n","c","o","d","i","n","g">>,
     <<"c","o","n","t","e","n","t","-","t","y","p","e">>, <<"r","e","f","e","r","e","r">> >>
\* proxy_request line 404: the origin headers copied to a redirect
SAFE_REDIRECT_HEADERS == << <<"c","a","c","h","e","-","c","o","n","t","r","o","l">>, <<"e","x","p","i","r","e","s">> >>

\* d[k] for a key the dict has
DictGet(d, k) == d[CHOOSE i \in 1..Len(d) : d[i][1] = k][2]

\* request.headers.get(name): the first header of that name, None without one
\* (the ASGI server hands the names over in lower case)
RequestHeader(headers, name) ==
  IF DictHas(headers, name)
  THEN Some(headers[MinOf({i \in 1..Len(headers) : headers[i][1] = name})][2])
  ELSE None

\* sep.join(values)
RECURSIVE JoinWith(_, _)
JoinWith(values, sep) ==
  IF values = <<>> THEN <<>>
  ELSE IF Len(values) = 1 THEN values[1]
  ELSE values[1] \o sep \o JoinWith(Tail(values), sep)

\* httpx.Headers.get_list(name): the values of the headers of that name,
\* compared in lower case, in the order received
RECURSIVE get_list(_, _)
get_list(headers, name) ==
  IF headers = <<>> THEN <<>>
  ELSE IF Lower(Head(headers)[1]) = name
  THEN <<Head(headers)[2]>> \o get_list(Tail(headers), name)
  ELSE get_list(Tail(headers), name)
\* httpx.Headers.get(name): the values joined by ", ", None without a header
HeadersGet(headers, name) ==
  IF get_list(headers, name) = <<>> THEN None
  ELSE Some(JoinWith(get_list(headers, name), <<","," ">>))
\* httpx.Headers.items(): lower-cased names in the order of their first
\* occurrence, each with its joined values
RECURSIVE HeaderItemsFrom(_, _, _)
HeaderItemsFrom(rest, headers, items) ==
  IF rest = <<>> THEN items
  ELSE IF DictHas(items, Lower(Head(rest)[1]))
  THEN HeaderItemsFrom(Tail(rest), headers, items)
  ELSE HeaderItemsFrom(Tail(rest), headers,
                       Append(items, <<Lower(Head(rest)[1]),
                                       HeadersGet(headers, Lower(Head(rest)[1]))[2]>>))
HeaderItems(headers) == HeaderItemsFrom(headers, headers, <<>>)

\* parse_set_cookie_headers: headers.get_list('set-cookie')
parse_set_cookie_headers(headers) == get_list(headers, <<"s","e","t","-","c","o","o","k","i","e">>)

\* proxy_request lines 270-274: the whitelisted request headers with a value
RECURSIVE CopyForwardHeaders(_, _, _)
CopyForwardHeaders(names, request_headers, forward_headers) ==
  IF names = <<>> THEN forward_headers
  ELSE IF Truthy(RequestHeader(request_headers, Head(names)))
  THEN CopyForwardHeaders(Tail(names), request_headers,
                          DictSet(forward_headers, Head(names),
                                  RequestHeader(request_headers, Head(names))[2]))
  ELSE CopyForwardHeaders(Tail(names), request_headers, forward_headers)
\* lines 277-278: forward_headers['Host'] = origin_parsed.hostname
ForwardWithHost(forward_headers, origin_url) ==
  DictSet(forward_headers, <<"H","o","s","t">>, hostname(urlparse(origin_url).netloc))
\* line 286: if referer_parsed.hostname
RefererHasHost(referer) == hostname(urlparse(referer).netloc) # <<>>
\* lines 282-289: a Referer with a host is replaced by the origin URL
ForwardWithReferer(forward_headers, origin_url) ==
  IF DictHas(forward_headers, <<"r","e","f","e","r","e","r">>)
     /\ RefererHasHost(DictGet(forward_headers, <<"r","e","f","e","r","e","r">>))
  THEN DictSet(forward_headers, <<"r","e","f","e","r","e","r">>, origin_url)
  ELSE forward_headers
PrepareForwardHeaders(request_headers, origin_url) ==
  ForwardWithReferer(
    ForwardWithHost(CopyForwardHeaders(FORWARD_HEADERS, request_headers, <<>>), origin_url),
    origin_url)
\* lines 297-301: the Cookie header of the stored cookies
ForwardWithCookies(forward_headers, stored_cookies) ==
  IF stored_cookies # <<>> /\ build_cookie_header(stored_cookies) # <<>>
  THEN DictSet(forward_headers, <<"C","o","o","k","i","e">>, build_cookie_header(stored_cookies))
  ELSE forward_headers

\* lines 399-406: the headers of a redirect
RECURSIVE CopySafeHeaders(_, _, _)
CopySafeHeaders(names, headers, response_headers) ==
  IF names = <<>> THEN response_headers
  ELSE IF HeadersGet(headers, Head(names)) # None
  THEN CopySafeHeaders(Tail(names), headers,
                       DictSet(response_headers, Head(names),
                               HeadersGet(headers, Head(names))[2]))
  ELSE CopySafeHeaders(Tail(names), headers, response_headers)
RedirectHeaders(mirror_location, headers) ==
  CopySafeHeaders(SAFE_REDIRECT_HEADERS, headers, << <<<<"L","o","c","a","t","i","o","n">>, mirror_location>> >>)

\* as Stripped, with nothing stripped
Stripped_Nothing(header_lower) == FALSE

\* line 443: header_lower not in STRIP_HEADERS
Stripped(header_lower) == header_lower \in STRIP_HEADERS
\* lines 440-444: the origin's headers without the stripped ones
RECURSIVE FilterHeaders(_, _)
FilterHeaders(items, response_headers) ==
  IF items = <<>> THEN response_headers
  ELSE IF ~Stripped(Lower(Head(items)[1]))
  THEN FilterHeaders(Tail(items), DictSet(response_headers, Head(items)[1], Head(items)[2]))
  ELSE FilterHeaders(Tail(items), response_headers)

\* the response as IsRedirect, TooLarge and the content branch read it
ResponseLocation(response) == HeadersGet(response.headers, <<"l","o","c","a","t","i","o","n">>)
ResponseContentType(response) ==
  IF HeadersGet(response.headers, <<"c","o","n","t","e","n","t","-","t","y","p","e">>) = None THEN <<>>
  ELSE HeadersGet(response.headers, <<"c","o","n","t","e","n","t","-","t","y","p","e">>)[2]
ResponseContentLength(response) == HeadersGet(response.headers, <<"c","o","n","t","e","n","t","-","l","e","n","g","t","h">>)
RedirectView(response) == [status |-> response.status, location |-> ResponseLocation(response)]

(***************************************************************************)
(* What arrives.                                                           *)
(***************************************************************************)
ExchangeHosts == { MirrorRoot, <<"x">> \o Dot(MirrorRoot) }
ExchangeConfigs == [session_mode : {"stateless", "cookie_jar"}, proxy_external_domains : BOOLEAN]
\* whitelisted headers of the user agent
WhitelistedHeaders ==
  { <<>>,
    << <<<<"u","s","e","r","-","a","g","e","n","t">>, <<"u","a">>>> >>,
    << <<<<"u","s","e","r","-","a","g","e","n","t">>, <<"u","a">>>>, <<<<"r","e","f","e","r","e","r">>, HTTPS \o MirrorRoot \o <<"/","p">>>> >>,
    << <<<<"r","e","f","e","r","e","r">>, <<"/","p">>>> >>,
    << <<<<"a","c","c","e","p","t">>, <<>> >>, <<<<"r","e","f","e","r","e","r">>, HTTPS \o MirrorRoot \o <<"/","p">>>>,
       <<<<"r","e","f","e","r","e","r">>, <<"/","q">>>> >> }
\* its Cookie header and headers that are not whitelisted
OtherHeaders ==
  { <<>>,
    << <<<<"c","o","o","k","i","e">>, <<"c","=","1">>>> >>,
    << <<<<"x","-","f","o","r","w","a","r","d","e","d","-","f","o","r">>, <<"1">>>>, <<<<"a","u","t","h","o","r","i","z","a","t","i","o","n">>, <<"t">>>>, <<<<"c","o","o","k","i","e">>, <<"c","=","2">>>> >> }
ExchangeCookies == { None, Some(sign_session_id(<<"a">>)) }
ExchangeJarKey(host) == JarKey(TheSite, <<"a">>, PageOriginURL(host))
ExchangeJars(host) ==
  { <<>>, store_cookies(<<>>, ExchangeJarKey(host), <<SetCookie_a1, SetCookie_b2>>) }

RedirectLocations ==
  { <<"/","n">>, <<"n","?","q">>, HTTPS \o <<"x",".">> \o SourceRoot \o <<"/","q">>,
    HTTPS \o SourceRoot \o <<"/","a",";","b","?","q","#","f">>, HTTPS \o SourceRoot,
    HTTPS \o <<"e",".","c","/","a","?","q","#","f">>, <<"/","/","e",".","c">>, HTTP \o <<"e",".","c","/","a",".","g","z">> }
RedirectResponse(status, location) ==
  [error |-> FALSE, status |-> status,
   headers |-> << <<<<"L","o","c","a","t","i","o","n">>, location>>, <<<<"C","a","c","h","e","-","C","o","n","t","r","o","l">>, <<"n","o","-","c","a","c","h","e">>>>,
                  <<<<"S","e","t","-","C","o","o","k","i","e">>, SetCookie_a3>>, <<<<"E","x","p","i","r","e","s">>, <<"0">>>>,
                  <<<<"X","-","A">>, <<"1">>>> >>]
\* a response that declares its length and sets a cookie
SizedResponse(content_type, content_length) ==
  [error |-> FALSE, status |-> 200,
   headers |-> << <<<<"C","o","n","t","e","n","t","-","T","y","p","e">>, content_type>>, <<<<"C","o","n","t","e","n","t","-","L","e","n","g","t","h">>, content_length>>,
                  <<<<"S","e","t","-","C","o","o","k","i","e">>, SetCookie_c4>> >>]
NoOriginResponse == [error |-> FALSE, status |-> 0, headers |-> <<>>]
ExchangeResponses ==
  { [error |-> TRUE, status |-> 0, headers |-> <<>>],
    [error |-> FALSE, status |-> 200,
     headers |-> << <<<<"C","o","n","t","e","n","t","-","T","y","p","e">>, <<"t","e","x","t","/","h","t","m","l">>>>, <<<<"S","e","t","-","C","o","o","k","i","e">>, SetCookie_a1>>,
                    <<<<"s","e","t","-","c","o","o","k","i","e">>, SetCookie_b2>>, <<<<"X","-","F","r","a","m","e","-","O","p","t","i","o","n","s">>, <<"D","E","N","Y">>>>,
                    <<<<"C","o","n","t","e","n","t","-","L","e","n","g","t","h">>, <<"1","0">>>>, <<<<"X","-","A">>, <<"1">>>>, <<<<"x","-","a">>, <<"2">>>>,
                    <<<<"C","a","c","h","e","-","C","o","n","t","r","o","l">>, <<"n","o","-","c","a","c","h","e">>>>,
                    <<<<"S","t","r","i","c","t","-","T","r","a","n","s","p","o","r","t","-","S","e","c","u","r","i","t","y">>, <<"m","a","x","-","a","g","e","=","1">>>>,
                    <<<<"C","O","N","T","E","N","T","-","S","E","C","U","R","I","T","Y","-","P","O","L","I","C","Y">>, <<"n","o","n","e">>>>,
                    <<<<"A","c","c","e","s","s","-","C","o","n","t","r","o","l","-","A","l","l","o","w","-","O","r","i","g","i","n">>, <<"*">>>>,
                    <<<<"C","o","n","t","e","n","t","-","E","n","c","o","d","i","n","g">>, <<"g","z","i","p">>>>,
                    <<<<"T","r","a","n","s","f","e","r","-","E","n","c","o","d","i","n","g">>, <<"c","h","u","n","k","e","d">>>> >>],
    [error |-> FALSE, status |-> 404,
     headers |-> << <<<<"c","o","n","t","e","n","t","-","t","y","p","e">>, <<"a","p","p","l","i","c","a","t","i","o","n","/","j","s","o","n">>>>, <<<<"E","T","a","g">>, <<"x">>>> >>],
    [error |-> FALSE, status |-> 200,
     headers |-> << <<<<"c","o","n","t","e","n","t","-","t","y","p","e">>, <<"t","e","x","t","/","h","t","m","l">>>>,
                    <<<<"c","o","n","t","e","n","t","-","l","e","n","g","t","h">>, <<"9","9","9","9","9","9","9","9">>>> >>],
    [error |-> FALSE, status |-> 304,
     headers |-> << <<<<"C","a","c","h","e","-","C","o","n","t","r","o","l">>, <<"n","o","-","c","a","c","h","e">>>>, <<<<"S","e","t","-","C","o","o","k","i","e">>, SetCookie_flag>> >>],
    SizedResponse(<<"t","e","x","t","/","h","t","m","l">>, <<"1","5","7","2","8","6","4","0">>),
    SizedResponse(<<"t","e","x","t","/","h","t","m","l",";"," ","c","h","a","r","s","e","t","=","u","t","f","-","8">>, <<"1","5","7","2","8","6","4","1">>),
    SizedResponse(<<"V","i","d","e","o","/","m","p","4">>, <<"1","5","7","2","8","6","4","1">>),
    RedirectResponse(301, <<"/","n">>) }
    \cup { RedirectResponse(302, location) : location \in RedirectLocations }

NoExchangeReply ==
  [status |-> 0, own |-> FALSE, kind |-> "none", headers |-> <<>>, session_cookie |-> None,
   media_type |-> None]
\* lines 338-342, 369-373: Response(content, status_code, media_type="text/plain")
OwnExchangeReply(status, kind) ==
  [status |-> status, own |-> TRUE, kind |-> kind, headers |-> <<>>,
   session_cookie |-> None, media_type |-> Some(<<"t","e","x","t","/","p","l","a","i","n">>)]

InitExchange ==
  /\ IdleExceptExchange
  /\ x_cfg \in ExchangeConfigs
  /\ x_host \in ExchangeHosts
  /\ x_headers \in {w \o o : w \in WhitelistedHeaders, o \in OtherHeaders}
  /\ x_cookie \in ExchangeCookies
  /\ x_origin_url = PageOriginURL(x_host)
  /\ x_session = NoSessionYet
  /\ x_forward = <<>>
  /\ x_jar \in ExchangeJars(x_host)
  /\ x_upstream = None
  /\ x_response = NoOriginResponse
  /\ x_reply = NoExchangeReply
  /\ x_log = <<>>
  /\ x_pc = "session"

\* lines 251-267: the session
AcquireExchangeSession ==
  /\ x_pc = "session"
  /\ \E token \in UrlSafeTokens \ {<<"a">>} :
       x_session' = AcquireSession(x_cfg.session_mode, x_cookie, token)
  /\ x_pc' = "headers"
  /\ UNCHANGED <<x_cfg, x_host, x_headers, x_cookie, x_origin_url, x_forward, x_jar, x_upstream, x_response, x_reply, x_log>>
  /\ UNCHANGED otherThanExchange

\* lines 269-289: the headers to forward
PrepareHeaders ==
  /\ x_pc = "headers"
  /\ x_forward' = PrepareForwardHeaders(x_headers, x_origin_url)
  /\ x_pc' = "inject"
  /\ UNCHANGED <<x_cfg, x_host, x_headers, x_cookie, x_origin_url, x_session, x_jar, x_upstream, x_response, x_reply, x_log>>
  /\ UNCHANGED otherThanExchange

\* lines 291-301: the Cookie header from the jar
InjectJarCookies ==
  /\ x_pc = "inject"
  /\ x_forward' =
       IF Truthy(x_session.id) /\ x_cfg.session_mode = "cookie_jar"
       THEN ForwardWithCookies(
              x_forward, get_cookies(x_jar, JarKey(TheSite, x_session.id[2], x_origin_url))[2])
       ELSE x_forward
  /\ x_pc' = "send"
  /\ UNCHANGED <<x_cfg, x_host, x_headers, x_cookie, x_origin_url, x_session, x_jar, x_upstream, x_response, x_reply, x_log>>
  /\ UNCHANGED otherThanExchange

\* lines 314-342: the upstream request; 502 and an error record when it fails
SendUpstream ==
  /\ x_pc = "send"
  /\ x_upstream' = Some([url |-> x_origin_url, headers |-> x_forward])
  /\ \E response \in ExchangeResponses :
       /\ x_response' = response
       /\ IF response.error
          THEN /\ x_log' = Append(x_log, LogEvent("error", 502))
               /\ x_reply' = OwnExchangeReply(502, "bad_gateway")
               /\ x_pc' = "done"
          ELSE /\ x_log' = x_log
               /\ x_reply' = x_reply
               /\ x_pc' = "size"
  /\ UNCHANGED <<x_cfg, x_host, x_headers, x_cookie, x_origin_url, x_session, x_forward, x_jar>>
  /\ UNCHANGED otherThanExchange

\* lines 347-373: 413 and a warning record for a large response
CheckSize ==
  /\ x_pc = "size"
  /\ IF TooLarge(ResponseContentType(x_response), ResponseContentLength(x_response))
     THEN /\ x_log' = Append(x_log, LogEvent("warning", 413))
          /\ x_reply' = OwnExchangeReply(413, "too_large")
          /\ x_pc' = "done"
     ELSE /\ x_log' = x_log
          /\ x_reply' = x_reply
          /\ x_pc' = "store"
  /\ UNCHANGED <<x_cfg, x_host, x_headers, x_cookie, x_origin_url, x_session, x_forward, x_jar, x_upstream, x_response>>
  /\ UNCHANGED otherThanExchange

\* lines 375-383: the Set-Cookie headers go to the jar
StoreSetCookies ==
  /\ x_pc = "store"
  /\ x_jar' =
       IF /\ Truthy(x_session.id) /\ x_cfg.session_mode = "cookie_jar"
          /\ parse_set_cookie_headers(x_response.headers) # <<>>
       THEN store_cookies(x_jar, JarKey(TheSite, x_session.id[2], x_origin_url),
                          parse_set_cookie_headers(x_response.headers))
       ELSE x_jar
  /\ x_pc' = "answer"
  /\ UNCHANGED <<x_cfg, x_host, x_headers, x_cookie, x_origin_url, x_session, x_forward, x_upstream, x_response, x_reply, x_log>>
  /\ UNCHANGED otherThanExchange

\* lines 385-437: a 3xx with a Location is answered as a redirect
AnswerRedirect ==
  /\ x_pc = "answer"
  /\ IsRedirect(RedirectView(x_response))
  /\ x_reply' =
       [status |-> x_response.status, own |-> FALSE, kind |-> "redirect",
        headers |-> RedirectHeaders(
                      map_origin_url_to_mirror(
                        normalize_redirect_location(ResponseLocation(x_response)[2],
                                                    x_origin_url),
                        TheSite, x_host),
                      x_response.headers),
        session_cookie |-> SessionCookieFor(x_session),
        media_type |-> None]
  /\ x_log' = Append(x_log, LogEvent("info", x_response.status))
  /\ x_pc' = "done"
  /\ UNCHANGED <<x_cfg, x_host, x_headers, x_cookie, x_origin_url, x_session, x_forward, x_jar, x_upstream, x_response>>
  /\ UNCHANGED otherThanExchange

\* lines 439-535: any other response is answered with the origin's headers
\* filtered, as HTML or as other content
AnswerContent ==
  /\ x_pc = "answer"
  /\ ~IsRedirect(RedirectView(x_response))
  /\ x_reply' =
       [status |-> x_response.status, own |-> FALSE,
        kind |-> IF Contains(Lower(ResponseContentType(x_response)), ContentType_html)
                 THEN "html" ELSE "other",
        headers |-> FilterHeaders(HeaderItems(x_response.headers), <<>>),
        session_cookie |-> SessionCookieFor(x_session),
        media_type |-> IF Contains(Lower(ResponseContentType(x_response)), ContentType_html)
                       THEN Some(ResponseContentType(x_response)) ELSE None]
  /\ x_log' = Append(x_log, LogEvent("info", x_response.status))
  /\ x_pc' = "done"
  /\ UNCHANGED <<x_cfg, x_host, x_headers, x_cookie, x_origin_url, x_session, x_forward, x_jar, x_upstream, x_response>>
  /\ UNCHANGED otherThanExchange

NextExchange ==
  \/ AcquireExchangeSession
  \/ PrepareHeaders
  \/ InjectJarCookies
  \/ SendUpstream
  \/ CheckSize
  \/ StoreSetCookies
  \/ AnswerRedirect
  \/ AnswerContent

(***************************************************************************)
(* app/core/cookie_manager.py: store_cookies calls made one after the      *)
(* other, each run to its commit before the next starts, and a get_cookies *)
(* call after them.                                                        *)
(***************************************************************************)
InitJar ==
  /\ IdleExceptJar
  /\ j_table = <<>>
  /\ j_history = <<>>
  /\ j_got = [key |-> NoKey, result |-> None]
  /\ j_pc = "calls"

\* await store_cookies(db, site_id, session_id, origin_host, set_cookie_headers)
StoreSequential ==
  /\ j_pc = "calls"
  /\ Len(j_history) < MaxSequentialStores
  /\ \E key \in JarKeys, headers \in SetCookieLists :
       /\ j_table' = store_cookies(j_table, key, headers)
       /\ j_history' = Append(j_history, [key |-> key, headers |-> headers])
  /\ UNCHANGED <<j_got, j_pc>>
  /\ UNCHANGED otherThanJar

\* await get_cookies(db, site_id, session_id, origin_host)
ReadCookies ==
  /\ j_pc = "calls"
  /\ \E key \in JarKeys :
       j_got' = [key |-> key, result |-> get_cookies(j_table, key)]
  /\ j_pc' = "read"
  /\ UNCHANGED <<j_table, j_history>>
  /\ UNCHANGED otherThanJar

NextJar == StoreSequential \/ ReadCookies

(***************************************************************************)
(* app/core/rate_limiter.py: is_allowed and get_retry_after as whole       *)
(* calls (each body runs under self.lock), on a clock finer than a second, *)
(* so that int() in get_retry_after has fractions to cut off.              *)
(***************************************************************************)
\* self.window_seconds in clock ticks; the clock runs from 0 to MaxTicks
WindowTicks == window_seconds * TicksPerSecond
MaxTicks == WindowTicks + TicksPerSecond

\* as IntOfTicks, rounding up
IntOfTicks_Ceiling(ticks) ==
  IF ticks >= 0 THEN (ticks + TicksPerSecond - 1) \div TicksPerSecond
  ELSE 0 - ((0 - ticks) \div TicksPerSecond)

\* int(x) for x seconds given in ticks: the fraction is cut off towards zero
IntOfTicks(ticks) ==
  IF ticks >= 0 THEN ticks \div TicksPerSecond
  ELSE 0 - ((0 - ticks) \div TicksPerSecond)

\* get_retry_after, lines 84-96
get_retry_after(requests, current_time) ==
  IF requests = <<>> THEN 0
  ELSE IF IntOfTicks(WindowTicks - (current_time - OldestRequest(requests))) > 0
       THEN IntOfTicks(WindowTicks - (current_time - OldestRequest(requests)))
       ELSE 0

\* is_allowed, lines 47-71: the timestamps kept, the result, the log afterwards
KeptRequests(log, client_ip, current_time) ==
  RecentRequests(log[client_ip], current_time - WindowTicks)
is_allowed(log, client_ip, current_time) ==
  IF Len(KeptRequests(log, client_ip, current_time)) >= max_requests
  THEN <<FALSE, 0>>
  ELSE <<TRUE, max_requests - (Len(KeptRequests(log, client_ip, current_time)) + 1)>>
LogAfterIsAllowed(log, client_ip, current_time) ==
  IF Len(KeptRequests(log, client_ip, current_time)) >= max_requests
  THEN [log EXCEPT ![client_ip] = KeptRequests(log, client_ip, current_time)]
  ELSE [log EXCEPT ![client_ip] =
          Append(KeptRequests(log, client_ip, current_time), current_time)]

\* the two latest of a sequence of results with one more
LatestTwo(results, result) ==
  IF results = <<>> THEN <<result>> ELSE <<results[Len(results)], result>>

InitRetry ==
  /\ IdleExceptRetry
  /\ ra_now = 0
  /\ ra_log = [ip \in ClientIPs |-> <<>>]
  /\ ra_result = [ip \in ClientIPs |-> NoResult]
  /\ ra_admits = [ip \in ClientIPs |-> 0]
  /\ ra_retry = [ip \in ClientIPs |-> <<>>]
  /\ ra_calls = 0

\* time passes
TickRetry ==
  /\ ra_now < MaxTicks
  /\ ra_now' = ra_now + 1
  /\ UNCHANGED <<ra_log, ra_result, ra_admits, ra_retry, ra_calls>>
  /\ UNCHANGED otherThanRetry

\* rate_limiter.is_allowed(client_ip)
IsAllowedCall ==
  /\ ra_calls < MaxLimiterCalls
  /\ \E ip \in ClientIPs :
       /\ ra_result' = [ra_result EXCEPT ![ip] = is_allowed(ra_log, ip, ra_now)]
       /\ ra_log' = LogAfterIsAllowed(ra_log, ip, ra_now)
       /\ ra_admits' = [ra_admits EXCEPT
                          ![ip] = IF is_allowed(ra_log, ip, ra_now)[1] THEN @ + 1 ELSE @]
  /\ ra_calls' = ra_calls + 1
  /\ UNCHANGED <<ra_now, ra_retry>>
  /\ UNCHANGED otherThanRetry

\* rate_limiter.get_retry_after(client_ip), for an IP whose last is_allowed
\* call was denied
RetryAfterCall ==
  /\ \E ip \in ClientIPs :
       /\ ra_result[ip] = <<FALSE, 0>>
       /\ ra_retry' = [ra_retry EXCEPT
                         ![ip] = LatestTwo(@, [at |-> ra_now,
                                               value |-> get_retry_after(ra_log[ip], ra_now),
                                               oldest |-> OldestRequest(ra_log[ip]),
                                               admits |-> ra_admits[ip]])]
  /\ UNCHANGED <<ra_now, ra_log, ra_result, ra_admits, ra_calls>>
  /\ UNCHANGED otherThanRetry

NextRetry == TickRetry \/ IsAllowedCall \/ RetryAfterCall

(***************************************************************************)
(* app/proxy/router.py: the routing of proxy_handler for one request that  *)
(* the rate limiter admitted, over a sites table of several rows: the      *)
(* admin-host guard, find_site_by_host, build_origin_url, the SSRF guard,  *)
(* and in proxy_request the effective configuration and the upstream       *)
(* request.                                                                *)
(***************************************************************************)
\* rows of the sites table: mirror_root is unique; the second mirror root is
\* a sub-domain of the first
SiteRow(id, mirror_root, source_root, enabled, proxy_subdomains, proxy_external_domains) ==
  [id |-> id, mirror_root |-> mirror_root, source_root |-> source_root,
   enabled |-> enabled, proxy_subdomains |-> proxy_subdomains,
   proxy_external_domains |-> proxy_external_domains,
   rewrite_js_redirects |-> None, remove_ads |-> None, inject_ads |-> None,
   remove_analytics |-> None, media_policy |-> None, session_mode |-> None,
   custom_ad_html |-> None, custom_tracker_js |-> None]
NestedMirrorRoot == <<"x",".","m",".","c">>
NestedSourceRoot == <<"t",".","c">>
SiteTables ==
  UNION { { << SiteRow(1, MirrorRoot, SourceRoot, e1, sub, ext) >>,
            << SiteRow(1, MirrorRoot, SourceRoot, e1, sub, ext),
               SiteRow(2, NestedMirrorRoot, NestedSourceRoot, e2, sub, ext) >>,
            << SiteRow(2, NestedMirrorRoot, NestedSourceRoot, e2, sub, ext),
               SiteRow(1, MirrorRoot, SourceRoot, e1, sub, ext) >> } :
          e1 \in BOOLEAN, e2 \in BOOLEAN, sub \in OptionalFlags, ext \in OptionalFlags }
GlobalRows ==
  { [DefaultGlobalConfig EXCEPT !.proxy_subdomains = Some(sub),
                                !.proxy_external_domains = Some(ext)] :
      sub \in BOOLEAN, ext \in BOOLEAN }

\* Host headers: the mirror root, with a port, sub-domains of it, hosts the
\* admin guard stops, a host of no site
RouteHosts ==
  { MirrorRoot, MirrorRoot \o <<":","8","0","0","0">>, NestedMirrorRoot, <<"y",".","m",".","c">>,
    ADMIN_HOST, <<"l","o","c","a","l","h","o","s","t",".","m",".","c">>, <<"o",".","c">> }
\* the path parameter: "", a page, an encoded external host, one that
\* resolves to a private address
RoutedPaths == { <<>>, <<"a">>, <<"e",".","c","/","a">>, <<"i","n","t","r","a","n","e","t",".","c","/">> }
RoutedQueries == { <<>>, <<"q">> }

InitRoute ==
  /\ IdleExceptRoute
  /\ rt_sites \in SiteTables
  /\ rt_global \in GlobalRows
  /\ rt_request \in [host : RouteHosts, path : RoutedPaths, query : RoutedQueries]
  /\ rt_site = None
  /\ rt_origin_url = <<>>
  /\ rt_config = <<>>
  /\ rt_upstream = None
  /\ rt_reply = 0
  /\ rt_pc = "admin_guard"

\* proxy_handler lines 580-585
AdminGuard ==
  /\ rt_pc = "admin_guard"
  /\ IF IsAdminHost(rt_request.host)
     THEN rt_reply' = 404 /\ rt_pc' = "answered"
     ELSE rt_reply' = rt_reply /\ rt_pc' = "find_site"
  /\ UNCHANGED <<rt_sites, rt_global, rt_request, rt_site, rt_origin_url, rt_config, rt_upstream>>
  /\ UNCHANGED otherThanRoute

\* proxy_handler lines 587-597
LookupSite ==
  /\ rt_pc = "find_site"
  /\ rt_site' = find_site_by_host(rt_request.host, rt_sites)
  /\ IF find_site_by_host(rt_request.host, rt_sites) = None
     THEN rt_reply' = 404 /\ rt_pc' = "answered"
     ELSE rt_reply' = rt_reply /\ rt_pc' = "build_origin"
  /\ UNCHANGED <<rt_sites, rt_global, rt_request, rt_origin_url, rt_config, rt_upstream>>
  /\ UNCHANGED otherThanRoute

\* proxy_handler lines 599-611
ConstructOriginUrl ==
  /\ rt_pc = "build_origin"
  /\ rt_origin_url' =
       build_origin_url(Split1(rt_request.host, ":")[1],
                        MirrorPathWithQuery(rt_request.path, rt_request.query),
                        rt_site[2].source_root, rt_site[2].mirror_root)
  /\ rt_pc' = "ssrf_check"
  /\ UNCHANGED <<rt_sites, rt_global, rt_request, rt_site, rt_config, rt_upstream, rt_reply>>
  /\ UNCHANGED otherThanRoute

\* proxy_handler lines 613-628
GuardOriginUrl ==
  /\ rt_pc = "ssrf_check"
  /\ IF SsrfBlocked(is_safe_origin_url(rt_origin_url).safe)
     THEN rt_reply' = 403 /\ rt_pc' = "answered"
     ELSE rt_reply' = rt_reply /\ rt_pc' = "proxy_request"
  /\ UNCHANGED <<rt_sites, rt_global, rt_request, rt_site, rt_origin_url, rt_config, rt_upstream>>
  /\ UNCHANGED otherThanRoute

\* proxy_request lines 238-249
LoadEffectiveConfig ==
  /\ rt_pc = "proxy_request"
  /\ rt_config' = get_effective_config(rt_site[2], rt_global)
  /\ rt_pc' = "send"
  /\ UNCHANGED <<rt_sites, rt_global, rt_request, rt_site, rt_origin_url, rt_upstream, rt_reply>>
  /\ UNCHANGED otherThanRoute

\* proxy_request lines 314-322: client.request(url=origin_url)
RequestOrigin ==
  /\ rt_pc = "send"
  /\ rt_upstream' = Some(rt_origin_url)
  /\ rt_pc' = "sent"
  /\ UNCHANGED <<rt_sites, rt_global, rt_request, rt_site, rt_origin_url, rt_config, rt_reply>>
  /\ UNCHANGED otherThanRoute

NextRoute ==
  \/ AdminGuard
  \/ LookupSite
  \/ ConstructOriginUrl
  \/ GuardOriginUrl
  \/ LoadEffectiveConfig
  \/ RequestOrigin

(***************************************************************************)
(* app/proxy/rewriter.py, rewrite_html: the attribute sweep over the       *)
(* parsed document.  An element is its tag name and its attributes, each   *)
(* attribute None (absent) or Some(value); no value holds a character that *)
(* the serialiser escapes.                                                 *)
(***************************************************************************)
AttrNames == {"href", "action", "src", "srcset", "base", "id"}

Element(name, attrs) == [name |-> name, attrs |-> attrs]
NoAttrs == [a \in AttrNames |-> None]

\* the arguments of rewrite_html that its helper rewrite(url) passes on
RewriteArgs(mirror_host, mirror_root, site_source_root, effective_config, current_page_origin_url) ==
  [mirror_host |-> mirror_host, mirror_root |-> mirror_root,
   site_source_root |-> site_source_root, effective_config |-> effective_config,
   current_page_origin_url |-> current_page_origin_url]

\* rewrite(url), lines 454-462
rewrite(url, args) ==
  rewrite_url(url, args.current_page_origin_url, args.mirror_host, args.mirror_root,
              args.site_source_root, args.effective_config)

\* soup.find_all(name, attr=True) followed by tag[target] = rewrite(tag[attr]):
\* every element of that name that carries attr gets target assigned
AssignAll(soup, name, attr, target, args) ==
  [i \in 1..Len(soup) |->
     IF soup[i].name = name /\ soup[i].attrs[attr] # None
     THEN [soup[i] EXCEPT !.attrs[target] = Some(rewrite(soup[i].attrs[attr][2], args))]
     ELSE soup[i]]

\* one part of a srcset, lines 494-500: "url descriptor" or a bare url
RewriteSrcsetPart(part, args) ==
  IF HasChar(part, " ")
  THEN rewrite(Strip(RSplit1(part, " ")[1]), args) \o <<" ">> \o RSplit1(part, " ")[2]
  ELSE rewrite(part, args)

RECURSIVE JoinCommaSpace(_)
JoinCommaSpace(parts) ==
  IF parts = <<>> THEN <<>>
  ELSE IF Len(parts) = 1 THEN parts[1]
  ELSE parts[1] \o <<",", " ">> \o JoinCommaSpace(Tail(parts))

\* lines 491-502: the new value of img[srcset]
RewriteSrcset(srcset, args) ==
  JoinCommaSpace([i \in 1..Len(SplitBy(srcset, ",")) |->
                    RewriteSrcsetPart(Strip(SplitBy(srcset, ",")[i]), args)])

\* lines 489-502: every img that carries srcset gets it assigned anew
AssignSrcsets(soup, args) ==
  [i \in 1..Len(soup) |->
     IF soup[i].name = "img" /\ soup[i].attrs["srcset"] # None
     THEN [soup[i] EXCEPT !.attrs["srcset"] = Some(RewriteSrcset(soup[i].attrs["srcset"][2], args))]
     ELSE soup[i]]

\* the sweep, lines 465-518, loop by loop
SweepLinks(soup, args) ==
  AssignAll(AssignAll(AssignAll(AssignAll(AssignAll(soup,
    "a", "href", "href", args),
    "form", "action", "action", args),
    "iframe", "src", "src", args),
    "link", "href", "href", args),
    "script", "src", "src", args)

SweepImages(soup, args) == AssignSrcsets(AssignAll(soup, "img", "src", "src", args), args)

SweepMedia(soup, args) ==
  AssignAll(AssignAll(AssignAll(soup,
    "source", "src", "src", args),
    "video", "src", "src", args),
    "audio", "src", "src", args)

\* lines 517-518: tag['base'] = rewrite(tag['href'])
SweepBase(soup, args) == AssignAll(soup, "base", "href", "base", args)

AttributeSweep(soup, mirror_host, mirror_root, site_source_root, effective_config, current_page_origin_url) ==
  SweepBase(SweepMedia(SweepImages(SweepLinks(soup,
    RewriteArgs(mirror_host, mirror_root, site_source_root, effective_config, current_page_origin_url)),
    RewriteArgs(mirror_host, mirror_root, site_source_root, effective_config, current_page_origin_url)),
    RewriteArgs(mirror_host, mirror_root, site_source_root, effective_config, current_page_origin_url)),
    RewriteArgs(mirror_host, mirror_root, site_source_root, effective_config, current_page_origin_url))

\* the attribute the specification lists for each element type
SWEPT_ATTRIBUTE ==
  [a |-> "href", form |-> "action", iframe |-> "src", link |-> "href", script |-> "src",
   img |-> "src", source |-> "src", video |-> "src", audio |-> "src", base |-> "href"]
SweptTypes == DOMAIN SWEPT_ATTRIBUTE

\* attribute values of a page: in-namespace, sub-domain, relative, external,
\* media and special ones
SweptUrls ==
  { HTTPS \o SourceRoot \o <<"/","a">>,
    HTTP \o <<"x",".">> \o SourceRoot \o <<"/","a","?","q","#","f">>,
    <<"/","a">>, <<"b",".","g","z">>,
    HTTPS \o <<"e",".","c","/","a">>,
    <<"m","a","i","l","t","o",":","a">> }

SrcsetValues ==
  { <<"/","a"," ","1","x">>, <<"/","a"," ","1","x",","," ">> \o HTTPS \o SourceRoot \o <<"/","b"," ","2","x">>, <<"b",","," "," ">> \o HTTPS \o <<"e",".","c","/","a"," ","1","0","0","w">> }

\* one element of a listed type with its URL attribute, with or without an id
SweptElements ==
  { Element(n, [NoAttrs EXCEPT ![SWEPT_ATTRIBUTE[n]] = Some(u), !["id"] = id]) :
      n \in SweptTypes, u \in SweptUrls, id \in {None, Some(<<"i">>)} }

\* images with a srcset, elements of a listed type without the attribute, and
\* elements of other types
OtherElements ==
  { Element("img", [NoAttrs EXCEPT !["src"] = src, !["srcset"] = Some(s)]) :
      src \in {None, Some(<<"/","a">>)}, s \in SrcsetValues }
  \cup { Element("a", [NoAttrs EXCEPT !["id"] = Some(<<"i">>)]),
         Element("div", [NoAttrs EXCEPT !["id"] = Some(<<"i">>)]),
         Element("embed", [NoAttrs EXCEPT !["src"] = Some(<<"/","a">>)]) }

\* documents of one element, and of two where the second is of another kind
Documents ==
  { <<e>> : e \in SweptElements \cup OtherElements }
  \cup { <<e, f>> : e \in SweptElements, f \in OtherElements }

InitSweep ==
  /\ IdleExceptSweep
  /\ sw_soup \in Documents
  /\ sw_cfg \in EffectiveConfigsURL
  /\ sw_mhost \in {MirrorRoot, <<"x",".">> \o MirrorRoot}
  /\ sw_out = <<>>
  /\ sw_pc = "parsed"

\* rewrite_html from the parsed soup to the end of the attribute sweep
Sweep ==
  /\ sw_pc = "parsed"
  /\ sw_out' = AttributeSweep(sw_soup, sw_mhost, TheSite.mirror_root, TheSite.source_root,
                              sw_cfg, PageOriginURL(sw_mhost))
  /\ sw_pc' = "swept"
  /\ UNCHANGED <<sw_soup, sw_cfg, sw_mhost>>
  /\ UNCHANGED otherThanSweep

NextSweep == Sweep

(***************************************************************************)
(* app/proxy/filter_ads.py.  An HTML text is given by what it spells: with *)
(* or without its own <html> element (wrapped), which of <head> and <body> *)
(* it spells (parts) and the nodes in them.  A node is an element (name,   *)
(* src attribute None or Some(value), text, child nodes) or a string       *)
(* (name "", its characters in text).                                      *)
(***************************************************************************)
AD_PATTERNS ==
  { <<"d","o","u","b","l","e","c","l","i","c","k">>, <<"g","o","o","g","l","e","s","y","n","d","i","c","a","t","i","o","n">>, <<"a","d","s","y","s","t","e","m">>, <<"a","d","s","e","r","v","i","c","e">>, <<"a","d","s","b","y","g","o","o","g","l","e">>,
    <<"g","o","o","g","l","e","t","a","g","m","a","n","a","g","e","r">>, <<"g","o","o","g","l","e","-","a","n","a","l","y","t","i","c","s">>, <<"g","o","o","g","l","e","a","d","s","e","r","v","i","c","e","s">> }

INLINE_SCRIPT_PATTERNS ==
  { <<"g","t","a","g","(">>, <<"g","a","(">>, <<"G","o","o","g","l","e","A","n","a","l","y","t","i","c","s","O","b","j","e","c","t">>, <<"f","b","q","(">>, <<"_","g","a","q">>, <<"d","a","t","a","L","a","y","e","r">> }

Node(name, src, text, children) ==
  [name |-> name, src |-> src, text |-> text, children |-> children]
Markup(wrapped, parts, head, body) ==
  [wrapped |-> wrapped, parts |-> parts, head |-> head, body |-> body]
\* the empty string
EmptyText == Markup(FALSE, {}, <<>>, <<>>)
\* a fragment: nodes without <html>, <head> or <body> around them
Fragment(nodes) == Markup(FALSE, {}, <<>>, nodes)

\* the number of script elements a fragment starts with
RECURSIVE LeadingScripts(_)
LeadingScripts(nodes) ==
  IF nodes = <<>> \/ nodes[1].name # "script" THEN 0
  ELSE 1 + LeadingScripts(Tail(nodes))

\* BeautifulSoup(html, 'lxml'): the parser supplies <html>, and <head> for
\* the scripts a fragment starts with and <body> for the rest of it; the
\* empty string parses to an empty soup
BeautifulSoup(html) ==
  IF html = EmptyText
  THEN [html |-> FALSE, parts |-> {}, head |-> <<>>, body |-> <<>>]
  ELSE IF html.wrapped
  THEN [html |-> TRUE, parts |-> html.parts, head |-> html.head, body |-> html.body]
  ELSE [html |-> TRUE,
        parts |-> (IF LeadingScripts(html.body) > 0 THEN {"head"} ELSE {})
                    \cup (IF LeadingScripts(html.body) < Len(html.body) THEN {"body"} ELSE {}),
        head |-> Take(html.body, LeadingScripts(html.body)),
        body |-> Drop(html.body, LeadingScripts(html.body))]

\* str(soup)
str(soup) ==
  IF ~soup.html THEN EmptyText
  ELSE Markup(TRUE, soup.parts, soup.head, soup.body)

\* any(pattern in src for pattern in AD_PATTERNS), src lower-cased
SrcIsAd(node) ==
  /\ node.src # None
  /\ \E pattern \in AD_PATTERNS : Contains(Lower(node.src[2]), pattern)

\* lines 62-73: a script found by find_all('script', src=True) that is removed
AdScript(node) == node.name = "script" /\ SrcIsAd(node)

\* lines 76-94: a script without a (non-empty) src whose string holds a pattern
TrackingScript(node) ==
  /\ node.name = "script"
  /\ ~(node.src # None /\ node.src[2] # <<>>)
  /\ node.text # <<>>
  /\ \E pattern \in INLINE_SCRIPT_PATTERNS : Contains(node.text, pattern)

\* lines 97-108: an iframe found by find_all('iframe', src=True) that is removed
AdIframe(node) == node.name = "iframe" /\ SrcIsAd(node)

\* what the loop of that name removes
Removes(loop, node) ==
  CASE loop = "script_src" -> AdScript(node)
    [] loop = "script_inline" -> TrackingScript(node)
    [] OTHER -> AdIframe(node)

\* the nodes left when the loop has decomposed its nodes, children included
Without(nodes, loop) ==
  [i \in 1..Len(SelectSeq(nodes, LAMBDA n : ~Removes(loop, n))) |->
     [SelectSeq(nodes, LAMBDA n : ~Removes(loop, n))[i] EXCEPT
        !.children = SelectSeq(@, LAMBDA c : ~Removes(loop, c))]]

Decomposed(soup, loop) ==
  [soup EXCEPT !.head = Without(@, loop), !.body = Without(@, loop)]

\* as clean_html, without the loop over the iframes
clean_html_ScriptsOnly(html, site_config) ==
  IF ~site_config.remove_ads /\ ~site_config.remove_analytics THEN html
  ELSE str(Decomposed(Decomposed(BeautifulSoup(html), "script_src"), "script_inline"))

clean_html(html, site_config) ==
  IF ~site_config.remove_ads /\ ~site_config.remove_analytics THEN html
  ELSE str(Decomposed(Decomposed(Decomposed(BeautifulSoup(html),
             "script_src"), "script_inline"), "iframe_src"))

\* child.name or (isinstance(child, str) and child.strip())
Appendable(child) == child.name # "" \/ Strip(child.text) # <<>>

RemoveAt(contents, i) == Take(contents, i - 1) \o Drop(contents, i)

\* lines 156-158: for child in ad_soup.body.children: body.append(child).
\* children iterates the list contents by position, and append() takes
\* the child out of that list before it puts it at the end of body
RECURSIVE AppendedFrom(_, _)
AppendedFrom(contents, i) ==
  IF i > Len(contents) THEN <<>>
  ELSE IF Appendable(contents[i])
       THEN <<contents[i]>> \o AppendedFrom(RemoveAt(contents, i), i + 1)
       ELSE AppendedFrom(contents, i + 1)

\* lines 150-164, for a custom_ad_html that parses to a soup with a body
WithAds(soup, site_config) ==
  IF site_config.inject_ads /\ site_config.custom_ad_html # EmptyText
     /\ "body" \in soup.parts
  THEN [soup EXCEPT !.body = @ \o AppendedFrom(BeautifulSoup(site_config.custom_ad_html).body, 1)]
  ELSE soup

\* soup.new_tag('script') with string = custom_tracker_js
TrackerScript(custom_tracker_js) == Node("script", None, custom_tracker_js, <<>>)

\* lines 167-183
WithTracker(soup, site_config) ==
  IF site_config.custom_tracker_js = <<>> THEN soup
  ELSE IF "body" \in soup.parts
  THEN [soup EXCEPT !.body = @ \o <<TrackerScript(site_config.custom_tracker_js)>>]
  ELSE IF "head" \in soup.parts
  THEN [soup EXCEPT !.head = @ \o <<TrackerScript(site_config.custom_tracker_js)>>]
  ELSE IF soup.html
  THEN [soup EXCEPT !.body = @ \o <<TrackerScript(site_config.custom_tracker_js)>>]
  ELSE soup

inject_ads_and_trackers(html, site_config) ==
  IF site_config.custom_ad_html = EmptyText /\ site_config.custom_tracker_js = <<>>
  THEN html
  ELSE str(WithTracker(WithAds(BeautifulSoup(html), site_config), site_config))

\* scripts and iframes of a page, and what may hold them
Leaf(name, src, text) == Node(name, src, text, <<>>)
PageScripts ==
  { Leaf("script", Some(src), <<>>) :
      src \in { <<"/","a",".","j","s">>, <<"/","/","x",".","D","o","u","b","l","e","C","l","i","c","k",".","n","e","t","/","a",".","j","s">>, <<"/","/","g","o","o","g","l","e","t","a","g","m","a","n","a","g","e","r",".","c","o","m","/","g">> } }
  \cup { Leaf("script", None, text) :
           text \in { <<>>, <<"x","=","1">>, <<"t","o","g","a","(","1",")">>, <<"G","A","(","1",")">>, <<"d","a","t","a","L","a","y","e","r","=","[","]">> } }
  \cup { Leaf("script", Some(<<>>), <<"f","b","q","(","1",")">>), Leaf("script", Some(<<"/","a",".","j","s">>), <<"_","g","a","q">>) }

PageNodes ==
  PageScripts
  \cup { Node(name, src, <<>>, children) :
           name \in {"iframe", "div"}, src \in {None, Some(<<"/","f">>), Some(<<"/","/","a","d","s","e","r","v","i","c","e",".","x","/","f">>)},
           children \in { <<>>, <<Leaf("script", None, <<"g","t","a","g","(","1",")">>)>>,
                          <<Leaf("script", Some(<<"/","/","a","d","s","y","s","t","e","m",".","x">>), <<>>)>> } }
  \cup { Leaf("", None, <<"t">>) }

\* texts of one or two nodes, as a fragment or as a whole document
PageTexts ==
  { Fragment(nodes) : nodes \in {<<n>> : n \in PageNodes} \cup (PageNodes \X PageScripts) }
  \cup { Markup(TRUE, {"head", "body"}, head, body) :
           head \in {<<>>} \cup {<<n>> : n \in PageScripts},
           body \in {<<>>} \cup {<<n>> : n \in PageNodes} }
  \cup { EmptyText }

\* the columns of the effective configuration that filter_ads.py reads
FilterConfig(remove_ads, remove_analytics, inject_ads, custom_ad_html, custom_tracker_js) ==
  [remove_ads |-> remove_ads, remove_analytics |-> remove_analytics,
   inject_ads |-> inject_ads, custom_ad_html |-> custom_ad_html,
   custom_tracker_js |-> custom_tracker_js]

CleanConfigs ==
  { FilterConfig(ra, rn, FALSE, EmptyText, <<>>) : ra \in BOOLEAN, rn \in BOOLEAN }

\* operator fragments: elements and strings, with and without blank strings
\* between them
AdNodes == { Leaf("p", None, <<"a">>), Leaf("div", None, <<"b">>), Leaf("", None, <<" ">>),
             Leaf("img", Some(<<"/","c",".","p","n","g">>), <<>>) }
AdFragments ==
  { Fragment(nodes) : nodes \in {<<>>} \cup {<<n>> : n \in AdNodes \ {Leaf("", None, <<" ">>)}}
                                \cup { <<Leaf("p", None, <<"a">>), n>> : n \in AdNodes }
                                \cup { <<Leaf("p", None, <<"a">>), n, Leaf("div", None, <<"b">>)>> : n \in AdNodes } }

InjectConfigs ==
  { FilterConfig(FALSE, FALSE, inject_ads, custom_ad_html, custom_tracker_js) :
      inject_ads \in BOOLEAN, custom_ad_html \in AdFragments,
      custom_tracker_js \in {<<>>, <<"t","(",")">>} }

\* pages the inject pass is given
InjectedTexts ==
  { Fragment(<<Leaf("p", None, <<"x">>)>>), Fragment(<<Leaf("script", None, <<"x","=","1">>)>>),
    Markup(TRUE, {"head", "body"}, <<>>, <<>>),
    Markup(TRUE, {"head", "body"}, <<>>, <<Leaf("p", None, <<"x">>)>>),
    Markup(TRUE, {"head"}, <<>>, <<>>), Markup(TRUE, {}, <<>>, <<>>), EmptyText }

InitFilter ==
  /\ IdleExceptFilter
  /\ \/ f_op = "clean" /\ f_html \in PageTexts /\ f_config \in CleanConfigs
     \/ f_op = "inject" /\ f_html \in InjectedTexts /\ f_config \in InjectConfigs
  /\ f_once = <<>>
  /\ f_twice = <<>>
  /\ f_pc = "html"

\* html = clean_html(html, effective_config)
CleanHtml ==
  /\ f_op = "clean" /\ f_pc = "html"
  /\ f_once' = clean_html(f_html, f_config)
  /\ f_pc' = "once"
  /\ UNCHANGED <<f_op, f_html, f_config, f_twice>>
  /\ UNCHANGED otherThanFilter

\* clean_html applied to its own output
CleanAgain ==
  /\ f_op = "clean" /\ f_pc = "once"
  /\ f_twice' = clean_html(f_once, f_config)
  /\ f_pc' = "twice"
  /\ UNCHANGED <<f_op, f_html, f_config, f_once>>
  /\ UNCHANGED otherThanFilter

\* html = inject_ads_and_trackers(html, effective_config)
InjectAds ==
  /\ f_op = "inject" /\ f_pc = "html"
  /\ f_once' = inject_ads_and_trackers(f_html, f_config)
  /\ f_pc' = "once"
  /\ UNCHANGED <<f_op, f_html, f_config, f_twice>>
  /\ UNCHANGED otherThanFilter

\* inject_ads_and_trackers applied to its own output
InjectAgain ==
  /\ f_op = "inject" /\ f_pc = "once"
  /\ f_twice' = inject_ads_and_trackers(f_once, f_config)
  /\ f_pc' = "twice"
  /\ UNCHANGED <<f_op, f_html, f_config, f_once>>
  /\ UNCHANGED otherThanFilter

NextFilter == CleanHtml \/ CleanAgain \/ InjectAds \/ InjectAgain

(***************************************************************************)
(* app/core/rate_limiter.py as main.py runs it: request_log as the dict it *)
(* is, with the IPs it holds as its domain.  Timestamps are kept relative  *)
(* to the clock reading (0 is now): a tick moves each one tick into the    *)
(* past, and one that has left the window stays at the window's edge; of   *)
(* the clock itself only the position within the second is kept.          *)
(***************************************************************************)
Now == 0
EmptyLog == [ip \in {} |-> <<>>]

\* self.request_log[ip] of the defaultdict(list), without the insertion
DefaultDict(log) == [ip \in ClientIPs |-> IF ip \in DOMAIN log THEN log[ip] ELSE <<>>]

\* request_log after is_allowed(client_ip): the key exists from line 51 on
DictAfterIsAllowed(log, client_ip, current_time) ==
  [ip \in DOMAIN log \cup {client_ip} |->
     LogAfterIsAllowed(DefaultDict(log), client_ip, current_time)[ip]]

\* cleanup_old_entries, lines 111-132: request_log after the call
cleanup_old_entries(log, current_time) ==
  [ip \in {k \in DOMAIN log : RecentRequests(log[k], current_time - WindowTicks) # <<>>} |->
     RecentRequests(log[ip], current_time - WindowTicks)]

\* a timestamp one tick later
Aged(ts) == IF ts - 1 < Now - WindowTicks THEN Now - WindowTicks ELSE ts - 1

InitMaint ==
  /\ IdleExceptMaint
  /\ mt_log = EmptyLog
  /\ mt_result = [ip \in ClientIPs |-> NoResult]
  /\ mt_retry = [ip \in ClientIPs |-> 0 - 1]
  /\ mt_clock = 0

\* time passes
ClockTick ==
  /\ mt_clock' = (mt_clock + 1) % TicksPerSecond
  /\ mt_log' = [ip \in DOMAIN mt_log |-> [i \in 1..Len(mt_log[ip]) |-> Aged(mt_log[ip][i])]]
  /\ UNCHANGED <<mt_result, mt_retry>>
  /\ UNCHANGED otherThanMaint

\* a request arrives: rate_limiter.is_allowed(client_ip), router.py
Admission ==
  /\ \E ip \in ClientIPs :
       /\ mt_result' = [mt_result EXCEPT ![ip] = is_allowed(DefaultDict(mt_log), ip, Now)]
       /\ mt_log' = DictAfterIsAllowed(mt_log, ip, Now)
  /\ UNCHANGED <<mt_retry, mt_clock>>
  /\ UNCHANGED otherThanMaint

\* the denied request's rate_limiter.get_retry_after(client_ip)
RetryAfter ==
  /\ \E ip \in ClientIPs :
       /\ mt_result[ip] = <<FALSE, 0>>
       /\ mt_retry' = [mt_retry EXCEPT ![ip] = get_retry_after(DefaultDict(mt_log)[ip], Now)]
  /\ UNCHANGED <<mt_log, mt_result, mt_clock>>
  /\ UNCHANGED otherThanMaint

\* the calls the running application makes on the limiter: init_rate_limiter
\* at start-up, is_allowed and get_retry_after per request
NextMaint == ClockTick \/ Admission \/ RetryAfter

(***************************************************************************)
(* app/proxy/router.py, proxy_request in cookie-jar mode: requests of      *)
(* several sessions to several sites in flight at once, on one cookie_jars *)
(* table.  A request reads the table in get_cookies and in the select of   *)
(* store_cookies and writes it at the commit; it is suspended in between   *)
(* (at the upstream request, at "await db.execute", at "await db.commit"), *)
(* and the other requests run there.                                       *)
(***************************************************************************)
MaxJarRequests == 3
JarRequests == {1, 2}

\* two sites that mirror the same source
OtherMirrorRoot == <<"n",".","c">>
SharedSites ==
  << [id |-> 1, mirror_root |-> MirrorRoot, source_root |-> SourceRoot, enabled |-> TRUE],
     [id |-> 2, mirror_root |-> OtherMirrorRoot, source_root |-> SourceRoot, enabled |-> TRUE] >>

\* host and path of the requests: the source root through either site, its
\* sub-domain and an external host through the first
SharedTargets ==
  { <<MirrorRoot, <<>>>>, <<<<"x",".">> \o MirrorRoot, <<>>>>, <<MirrorRoot, <<"e",".","c","/","a">>>>,
    <<OtherMirrorRoot, <<>>>> }
\* px_session_id as presented: the signed cookies of two sessions
SharedCookies == { Some(sign_session_id(<<"a">>)), Some(sign_session_id(<<"b">>)) }
\* generate_session_id for the n-th request, were its cookie not valid
MintedToken(n) == [i \in 1..n |-> "e"]

\* what the origin makes of the request it answers: one cookie for the
\* session it was sent for, one for the host that answers, one for the site
SessionChar(session_id) == session_id[1]
HostChar(origin_host) ==
  CASE origin_host = SourceRoot -> "s"
    [] origin_host = <<"x",".">> \o SourceRoot -> "x"
    [] OTHER -> "o"
SiteChar(site_id) == IF site_id = 1 THEN "1" ELSE "2"
OriginSetCookies(site_id, session_id, origin_host) ==
  << <<"s", "=", SessionChar(session_id)>> \o <<";"," ","P","a","t","h","=","/">>,
     <<"h", "=", HostChar(origin_host)>> \o <<";"," ","D","o","m","a","i","n","=",".">> \o SourceRoot,
     <<"i", "=", SiteChar(site_id)>> >>

IdleRequest ==
  [pc |-> "idle", site_id |-> 0, session_id |-> <<>>, origin_url |-> <<>>, sent_to |-> <<>>,
   key |-> NoKey, cookie |-> None, cookies |-> <<>>, row |-> None, existing |-> None]

InitShare ==
  /\ IdleExceptShare
  /\ sh_jars = <<>>
  /\ sh_req = [r \in JarRequests |-> IdleRequest]
  /\ sh_started = 0

\* the request as it reaches the cookie jar: proxy_handler found the site and
\* built the origin URL, proxy_request acquired the session (lines 254-267);
\* sent_to is the host the HTTP client connects to for origin_url
RequestFor(site, session_id, origin_url) ==
  [IdleRequest EXCEPT
     !.site_id = site.id,
     !.session_id = session_id,
     !.origin_url = origin_url,
     !.sent_to = hostname(urlsplit(origin_url).netloc),
     !.key = JarKey(site, session_id, origin_url)]
ArrivedRequest(host, path, cookie, n) ==
  RequestFor(find_site_by_host(host, SharedSites)[2],
             AcquireSession("cookie_jar", cookie, MintedToken(n)).id[2],
             build_origin_url(host, path, find_site_by_host(host, SharedSites)[2].source_root,
                              find_site_by_host(host, SharedSites)[2].mirror_root))

\* lines 297-301: the Cookie header made of the stored cookies, None without
ForwardedCookie(stored_cookies) ==
  IF DictHas(ForwardWithCookies(<<>>, stored_cookies), <<"C","o","o","k","i","e">>)
  THEN Some(DictGet(ForwardWithCookies(<<>>, stored_cookies), <<"C","o","o","k","i","e">>))
  ELSE None

\* lines 291-322: get_cookies reads the jar and the upstream request leaves
\* with the Cookie header; the request ends when get_cookies raises
Injected(request, table) ==
  IF get_cookies(table, request.key) = Raised THEN IdleRequest
  ELSE [request EXCEPT !.pc = "upstream",
                       !.cookie = ForwardedCookie(get_cookies(table, request.key)[2])]

\* a request arrives and is sent upstream
SendShared(r) ==
  /\ sh_req[r].pc = "idle"
  /\ sh_started < MaxJarRequests
  /\ \E target \in SharedTargets, cookie \in SharedCookies :
       sh_req' = [sh_req EXCEPT
                    ![r] = Injected(ArrivedRequest(target[1], target[2], cookie, sh_started + 1),
                                    sh_jars)]
  /\ sh_started' = sh_started + 1
  /\ UNCHANGED <<sh_jars>>
  /\ UNCHANGED otherThanShare

\* store_cookies lines 123-130 for the cookies parsed: the row of the key is
\* read; the request ends when scalar_one_or_none raises
Selected(request, table, cookies) ==
  IF scalar_one_or_none(RowsOf(table, request.key)) = Raised THEN IdleRequest
  ELSE [request EXCEPT
          !.pc = "commit",
          !.cookies = cookies,
          !.row = scalar_one_or_none(RowsOf(table, request.key)),
          !.existing =
            IF scalar_one_or_none(RowsOf(table, request.key)) = None THEN None
            ELSE Some(table[scalar_one_or_none(RowsOf(table, request.key))[2]].cookie_data)]

\* lines 375-383: the origin host answers, with Set-Cookie headers or
\* without, and store_cookies parses them (lines 104-120) and reads the row
AnswerShared(r) ==
  /\ sh_req[r].pc = "upstream"
  /\ \E set_cookie_headers \in
          {<<>>, OriginSetCookies(sh_req[r].site_id, sh_req[r].session_id, sh_req[r].sent_to)} :
       sh_req' =
         IF ParseSetCookies(set_cookie_headers) = <<>>
         THEN [sh_req EXCEPT ![r] = IdleRequest]
         ELSE [sh_req EXCEPT ![r] = Selected(sh_req[r], sh_jars, ParseSetCookies(set_cookie_headers))]
  /\ UNCHANGED <<sh_jars, sh_started>>
  /\ UNCHANGED otherThanShare

\* store_cookies lines 132-154: merge, write and commit; the request is done
CommitShared(r) ==
  /\ sh_req[r].pc = "commit"
  /\ sh_jars' = CommitStore(sh_jars, sh_req[r].key, sh_req[r].row,
                            MergedCookieData(sh_req[r].existing, sh_req[r].cookies))
  /\ sh_req' = [sh_req EXCEPT ![r] = IdleRequest]
  /\ UNCHANGED <<sh_started>>
  /\ UNCHANGED otherThanShare

SendAny == \E r \in JarRequests : SendShared(r)
AnswerAny == \E r \in JarRequests : AnswerShared(r)
CommitAny == \E r \in JarRequests : CommitShared(r)
NextShare == SendAny \/ AnswerAny \/ CommitAny

(***************************************************************************)
(* The specifications.                                                     *)
(***************************************************************************)
SpecURL == InitURL /\ [][NextURL]_vars
SpecSession == InitSession /\ [][NextSession]_vars
SpecGuard == InitGuard /\ [][NextGuard]_vars
SpecRL == InitRL /\ [][NextRL]_vars
SpecStore == InitStore /\ [][NextStore]_vars
SpecProxy == InitProxy /\ [][NextProxy]_vars
SpecExchange == InitExchange /\ [][NextExchange]_vars
SpecJar == InitJar /\ [][NextJar]_vars
SpecRetry == InitRetry /\ [][NextRetry]_vars
SpecRoute == InitRoute /\ [][NextRoute]_vars
SpecConfig == InitConfig /\ [][NextConfig]_vars
SpecSweep == InitSweep /\ [][NextSweep]_vars
SpecFilter == InitFilter /\ [][NextFilter]_vars
\* the clock never stops; requests come as the clients send them
SpecMaint == InitMaint /\ [][NextMaint]_vars /\ WF_vars(ClockTick)
SpecShare == InitShare /\ [][NextShare]_vars

(***************************************************************************)
(* Claims about the SSRF guard (checked under SpecGuard)                   *)
(***************************************************************************)
\* the address a host denotes: the literal's address, or the address a name
\* resolves to (its A record, else its AAAA record); NoAddr when none
Denotes(e) == IF e.a # NoAddr THEN e.a ELSE e.aaaa

\* loopback, private (10/8, 172.16/12, 192.168/16; fc00::/7), link-local
\* (169.254/16; fe80::/10) or reserved (240/4)
ForbiddenAddress(addr) ==
  IF Len(addr) = 4
  THEN \/ InNet4(addr, <<127,0,0,0>>, 8)
       \/ InNet4(addr, <<10,0,0,0>>, 8)
       \/ InNet4(addr, <<172,16,0,0>>, 12)
       \/ InNet4(addr, <<192,168,0,0>>, 16)
       \/ InNet4(addr, <<169,254,0,0>>, 16)
       \/ InNet4(addr, <<240,0,0,0>>, 4)
  ELSE \/ addr = <<0,0,0,0,0,0,0,1>>
       \/ InNet6(addr, <<64512,0,0,0,0,0,0,0>>, 7)
       \/ InNet6(addr, <<65152,0,0,0,0,0,0,0>>, 10)
       \/ (IsV4Mapped(addr) /\ InNet4(EmbeddedV4(addr), <<127,0,0,0>>, 8))

\* C1: when is_safe_origin_url(u) returns (True, _), u's scheme is http or
\* https, its hostname is present and is not localhost / 127.0.0.1 / ::1, and
\* the address the hostname denotes is not loopback, private, link-local or
\* reserved.
C1_SafeUrlIsPublic ==
  (g_pc = "checked" /\ g_result.safe) =>
     /\ Lower(g_scheme) \in {<<"h","t","t","p">>, <<"h","t","t","p","s">>}
     /\ g_host # NoHost
     /\ g_host.name \notin LOCALHOST_NAMES
     /\ (Denotes(g_host) # NoAddr => ~ForbiddenAddress(Denotes(g_host)))

(***************************************************************************)
(* Claims about the session manager (checked under SpecSession)            *)
(***************************************************************************)
\* the tokens t for which c is exactly t + "." + hex(HMAC-SHA256(SECRET_KEY, t))
SignedTokensOf(c) ==
  {t \in {Take(c, n) : n \in 0..Len(c)} :
      c = t \o <<".">> \o hmac_sha256_hexdigest(SECRET_KEY, t)}

\* C7: verify_session_id(sign_session_id(t)) returns t; verify_session_id(c)
\* returns a token t only when c = t + "." + hex(HMAC-SHA256(SECRET_KEY, t)),
\* and returns None for every other input; it never raises.
C7_VerifyAcceptsExactlySigned ==
  (s_pc = "verified") =>
     /\ s_result # Raised
     /\ (s_mode = "sign" => s_result = Some(s_token))
     /\ (s_result # None => /\ Len(s_result) = 2
                            /\ s_result[2] \in SignedTokensOf(s_cookie))
     /\ (SignedTokensOf(s_cookie) = {} => s_result = None)

C7_Witness ==
  /\ s_mode = "sign" /\ s_pc = "verified"
  /\ s_token = <<"a", ".">>
  /\ s_result = Some(<<"a", ".">>)

(***************************************************************************)
(* Claims about the URL mapper (checked under SpecURL)                     *)
(***************************************************************************)
\* the first non-empty segment of a path, and what follows it
SegStart(p) ==
  LET I == {i \in 1..Len(p) : p[i] # "/"} IN IF I = {} THEN 0 ELSE MinOf(I)
SegEnd(p) ==
  LET I == {i \in SegStart(p)..Len(p) : p[i] = "/"}
  IN  IF I = {} THEN Len(p) ELSE MinOf(I) - 1
FirstSegment(p) == IF SegStart(p) = 0 THEN <<>> ELSE SubSeq(p, SegStart(p), SegEnd(p))
AfterFirstSegment(p) == IF SegStart(p) = 0 THEN <<>> ELSE Drop(p, SegEnd(p))
LooksEncoded(seg) == HasChar(seg, ".") /\ ~HasChar(seg, " ")

\* the origin host the spec assigns to mirror host h: S for M, x.S for x.M
SpecOriginHost(h) ==
  IF h = MirrorRoot THEN SourceRoot
  ELSE Take(h, Len(h) - Len(MirrorRoot)) \o SourceRoot

\* the origin URL of claim C8 for host h and path p
ClaimedOrigin(h, p) ==
  IF LooksEncoded(FirstSegment(p))
  THEN HTTPS \o FirstSegment(p)
         \o (IF AfterFirstSegment(p) = <<>> THEN <<"/">> ELSE AfterFirstSegment(p))
  ELSE HTTPS \o SpecOriginHost(h) \o p

\* C8 as stated: build_origin_url returns https://<first segment><rest> when the
\* first non-empty segment of the path contains a '.' and no space, and
\* https://<origin host of h> followed by the path p otherwise.
C8_AsStated ==
  (u_kind = "mirror" /\ u_pc # "request") => u_origin = ClaimedOrigin(u_mhost, u_path)

\* C8 amended: as C8, except that a path with no non-empty segment (only
\* slashes) maps to https://<origin host of h>/ .
C8_BuildOrigin ==
  (u_kind = "mirror" /\ u_pc # "request") =>
     u_origin = IF FirstSegment(u_path) = <<>>
                THEN HTTPS \o SpecOriginHost(u_mhost) \o <<"/">>
                ELSE ClaimedOrigin(u_mhost, u_path)

C8_Witness ==
  /\ u_kind = "mirror" /\ u_pc = "origin"
  /\ u_mhost = <<"x",".","m",".","c">>
  /\ u_path = <<"/","/">>
  /\ u_origin = HTTPS \o <<"x",".","s",".","c","/">>

\* C9: for a mirror request (h, p) whose first non-empty segment is not an
\* encoded domain, either reverse mapper applied to build_origin_url(h, p)
\* yields https://h followed by p (or by "/" when p has no segment).
C9_RoundTrip ==
  (u_kind = "mirror" /\ u_pc = "done" /\ ~HasChar(FirstSegment(u_path), ".")) =>
     \/ u_mirror = HTTPS \o u_mhost \o u_path
     \/ (FirstSegment(u_path) = <<>> /\ u_mirror = HTTPS \o u_mhost \o <<"/">>)

\* C10: for an origin URL u under S, mapping u to the mirror and building the
\* origin URL of the request for that mirror URL yields u with scheme https.
SchemeLess(url) == LET sp == urlsplit(url) IN Drop(url, Len(sp.scheme) + 3)
C10_RoundTrip ==
  (u_kind = "origin" /\ u_pc = "done") => u_back = HTTPS \o SchemeLess(u_origin)

\* C11: the origin URL built for a request with path p and raw query q is the
\* origin URL built for p without a query, followed by "?" and q unchanged
\* (so the query never decides whether the first segment is an encoded host).
C11_QueryPreserved ==
  (u_kind = "query" /\ u_pc = "done" /\ u_query # <<>>) =>
     u_origin = build_origin_url(u_mhost, MirrorPath(u_path), TheSite.source_root,
                                 TheSite.mirror_root) \o <<"?">> \o u_query

\* the target of the i-th <a href> of the page, resolved against the page's
\* origin URL, and the host of a URL
TargetOf(i) == urljoin(PageOriginURL(u_mhost), u_html[i])
HostOfUrl(url) == hostname(urlparse(url).netloc)
HttpUrl(url) == urlparse(url).scheme \in {<<"h","t","t","p">>, <<"h","t","t","p","s">>}
\* the i-th rewritten href as the user agent resolves it on the mirror page
MirrorPageURL == HTTPS \o u_mhost \o <<"/","a","/","p">>
FollowedHost(i) == HostOfUrl(urljoin(MirrorPageURL, u_rewritten[i]))
\* the target is a media URL that media_policy = bypass leaves on the origin
MediaBypassed(i) == u_cfg.media_policy = "bypass" /\ is_media_url(TargetOf(i))

\* what C12 says of the i-th <a href> of a rewritten page
HrefInMirror(i) ==
  /\ HostBelongs(HostOfUrl(TargetOf(i)), SourceRoot) =>
        HostBelongs(FollowedHost(i), MirrorRoot)
  /\ ( /\ u_cfg.proxy_external_domains
       /\ HttpUrl(TargetOf(i))
       /\ HostOfUrl(TargetOf(i)) # <<>>
       /\ ~HostBelongs(HostOfUrl(TargetOf(i)), SourceRoot) ) =>
        FollowedHost(i) = MirrorRoot

\* C12 as stated: after rewrite_html, under every effective configuration,
\* every <a href> whose target has a host in S or *.S has a host in M or *.M,
\* and with proxy_external_domains every <a href> whose target has another
\* http(s) host has host M.
C12_AsStated ==
  (u_kind = "html" /\ u_pc = "done") => \A i \in 1..Len(u_html) : HrefInMirror(i)

\* C12 amended: as C12, for every <a href> other than those whose target path
\* ends in a media extension while media_policy is bypass (these are left as
\* the absolute origin URL).
C12_HrefsInMirror ==
  (u_kind = "html" /\ u_pc = "done") =>
     /\ Len(u_rewritten) = Len(u_html)
     /\ \A i \in 1..Len(u_html) :
          IF MediaBypassed(i) THEN u_rewritten[i] = TargetOf(i) ELSE HrefInMirror(i)

\* a page with a relative in-namespace link and an external link, rewritten on
\* a sub-domain mirror host with external domains proxied
C12_Witness ==
  /\ u_kind = "html" /\ u_pc = "done"
  /\ u_cfg.proxy_external_domains
  /\ u_mhost = <<"x",".","m",".","c">>
  /\ u_html = << <<"b">>, HTTPS \o <<"e",".","c","/","a">> >>
  /\ u_rewritten = << HTTPS \o <<"x",".","m",".","c","/","a","/","b">>,
                      HTTPS \o <<"m",".","c","/","e",".","c","/","a">> >>

(***************************************************************************)
(* Claims about the rate limiter (checked under SpecRL)                    *)
(***************************************************************************)
\* the admissions of ip whose admission time lies in the window (s, s + W]
AdmittedIn(ip, s) ==
  {i \in 1..Len(rl_admitted[ip]) :
     s < rl_admitted[ip][i] /\ rl_admitted[ip][i] <= s + window_seconds}

EvictStepOf(t) == rl_pc[t] = "locked" /\ rl_pc'[t] = "evicted"
DenyStepOf(t) == rl_pc[t] = "counted" /\ rl_pc'[t] = "denied"
AdmitStepOf(t) == rl_pc[t] = "counted" /\ rl_pc'[t] = "admitted"
\* the log with the entry of one IP replaced
LogWith(ip, requests) == [request_log EXCEPT ![ip] = requests]
\* the timestamps of an IP newer than now - W, and those not older than it
NewerThanCutoff(ip, now) ==
  SelectSeq(request_log[ip], LAMBDA ts : ts > now - window_seconds)
NotOlderThanCutoff(ip, now) ==
  SelectSeq(request_log[ip], LAMBDA ts : ~(ts < now - window_seconds))
\* a denial records nothing and returns (False, 0); it happens when the
\* timestamps left are max_requests or more
DenyEffect(t) ==
  DenyStepOf(t) =>
    /\ Len(request_log[rl_ip[t]]) >= max_requests
    /\ request_log' = request_log
    /\ rl_result'[t] = <<FALSE, 0>>
\* an admission appends now to the list of the IP only and returns
\* (True, N - size after the append)
AdmitEffect(t) ==
  AdmitStepOf(t) =>
    /\ Len(request_log[rl_ip[t]]) < max_requests
    /\ request_log' = LogWith(rl_ip[t], Append(request_log[rl_ip[t]], rl_time[t]))
    /\ rl_result'[t] = <<TRUE, max_requests - Len(request_log'[rl_ip[t]])>>
\* the log changes in the steps of the thread holding the lock only
OnlyUnderLock ==
  request_log' # request_log =>
    \E t \in Threads : rl_lock = t /\ (EvictStepOf(t) \/ AdmitStepOf(t))

\* C18 as stated: is_allowed(ip) first evicts the timestamps of that IP older
\* than now - W; with max_requests or more left it returns (False, 0) and
\* records nothing for any IP; otherwise it appends exactly one timestamp,
\* now, to the list of that IP only and returns (True, N - size after the
\* append).
C18_AsStated ==
  [][/\ OnlyUnderLock
     /\ \A t \in Threads :
          /\ EvictStepOf(t) =>
               request_log' = LogWith(rl_ip[t], NotOlderThanCutoff(rl_ip[t], rl_now))
          /\ DenyEffect(t)
          /\ AdmitEffect(t)]_vars

\* C18, amended: the eviction removes the timestamps of that IP at or before
\* now - W (a timestamp exactly W old is evicted too); the rest as stated.
C18_IsAllowedEffect ==
  [][/\ OnlyUnderLock
     /\ \A t \in Threads :
          /\ EvictStepOf(t) =>
               request_log' = LogWith(rl_ip[t], NewerThanCutoff(rl_ip[t], rl_now))
          /\ DenyEffect(t)
          /\ AdmitEffect(t)]_vars

\* a call for ip1 was admitted as the last of its window after older
\* timestamps of ip1 were evicted, while the list of ip2 was left alone
C18_Witness ==
  \E t \in Threads :
    /\ rl_pc[t] = "admitted" /\ rl_ip[t] = "ip1"
    /\ rl_result[t] = <<TRUE, 0>>
    /\ Len(request_log["ip1"]) = max_requests
    /\ Len(rl_admitted["ip1"]) > max_requests
    /\ request_log["ip2"] # <<>>

(***************************************************************************)
(* Claims about the cookie store (checked under SpecStore)                 *)
(***************************************************************************)
\* the cookie names written to key by the store_cookies calls
WrittenNames(key) ==
  UNION {DictNames(st_cookies[c]) : c \in {d \in StoreCalls : st_key[d] = key}}

\* C5: once all concurrent store_cookies calls on a triple have completed,
\* there is exactly one cookie-jar row for the triple, get_cookies(triple)
\* succeeds, and the map it returns contains every cookie name written by any
\* of the calls.
C5_StoreAtomic ==
  (StoreCallsCompleted /\ st_got.settled /\ WrittenNames(st_got.key) # {}) =>
     /\ Cardinality(RowsOf(cookie_jars, st_got.key)) = 1
     /\ st_got.result # Raised
     /\ Len(st_got.result) = 2
     /\ WrittenNames(st_got.key) \subseteq DictNames(st_got.result[2])

(***************************************************************************)
(* Claims about the request pipeline (checked under SpecProxy)             *)
(***************************************************************************)
\* the jar triple of the request in flight
CurrentKey == JarKey(p_site[2], p_session.id[2], p_origin_url)

\* the upstream request has just been sent (it stays as it is until the
\* request is answered)
UpstreamJustSent ==
  p_upstream # None /\ (p_pc = "size_check" \/ (p_pc = "respond" /\ p_response.error))

\* C2: when the proxy answers with its own 429, 404 or 403, it has dispatched
\* no upstream request, minted no session, and neither read nor written the
\* cookie store for that request; and no upstream request is ever sent to an
\* origin URL that is_safe_origin_url rejects.
C2_OwnErrorsTouchNothing ==
  /\ (p_reply.own /\ p_reply.status \in {429, 404, 403}) =>
        /\ p_upstream = None
        /\ ~p_did.minted /\ p_session = NoSessionYet
        /\ p_did.jar_reads = 0 /\ p_did.jar_writes = 0
  /\ UpstreamJustSent => is_safe_origin_url(p_upstream[2].url).safe

\* the SSRF guard's 403 for an encoded private host, with cookies in the jar
C2_Witness ==
  /\ p_pc = "respond"
  /\ p_reply = OwnReply(403, "blocked")
  /\ p_origin_url = HTTPS \o <<"i","n","t","r","a","n","e","t",".","c","/">>
  /\ p_jar # <<>>

\* name=value pairs joined with "; " (no Cookie header when there is none)
RECURSIVE JoinPairs(_)
JoinPairs(pairs) ==
  IF Len(pairs) = 1 THEN pairs[1][1] \o <<"=">> \o pairs[1][2]
  ELSE pairs[1][1] \o <<"=">> \o pairs[1][2] \o <<";", " ">> \o JoinPairs(Tail(pairs))
CookieHeaderOf(pairs) == IF pairs = <<>> THEN None ELSE Some(JoinPairs(pairs))

\* C4: in cookie_jar mode, with the requests sent one after another, the
\* Cookie header of an upstream request is exactly the name=value pairs
\* accumulated from the Set-Cookie headers of the earlier proxied origin
\* responses of its (site, session, origin host), joined with "; "; and when a
\* proxied response is about to be emitted, the jar already holds its cookies.
C4_JarRoundTrip ==
  (EffectiveConfig.session_mode = "cookie_jar" /\ Truthy(p_session.id)) =>
     /\ (p_upstream # None) =>
           p_upstream[2].cookie = CookieHeaderOf(p_proxied[CurrentKey])
     /\ (p_pc = "respond" /\ ~p_reply.own) =>
           get_cookies(p_jar, CurrentKey)
             = Some(Accumulate(p_proxied[CurrentKey], p_response.set_cookie))

\* the third request of a session goes upstream with the cookies of the two
\* earlier responses
C4_Witness ==
  /\ p_served = 3
  /\ p_pc = "size_check"
  /\ p_request.cookie = Some(sign_session_id(<<"a">>))
  /\ p_upstream = Some([url |-> HTTPS \o SourceRoot \o <<"/">>,
                        cookie |-> Some(<<"a","=","1",";"," ","b","=","2">>)])

\* the px_session_id presented carries a signature that verifies
PresentedVerifies ==
  p_request.cookie # None /\ SignedTokensOf(p_request.cookie[2]) # {}
\* ... and the token it signs is not empty
PresentedSessionId ==
  p_request.cookie # None /\ SignedTokensOf(p_request.cookie[2]) \ {<<>>} # {}

\* what C6 says of a response, for "valid" the meaning of a valid cookie
SessionCookieRule(valid) ==
  /\ (EffectiveConfig.session_mode = "stateless") => p_reply.session_cookie = None
  /\ (p_pc = "respond" /\ ~p_reply.own) =>
        /\ (p_reply.session_cookie # None)
              <=> (EffectiveConfig.session_mode = "cookie_jar" /\ ~valid)
        /\ (p_reply.session_cookie # None) =>
              /\ p_did.minted
              /\ p_session.id # None
              /\ SignedTokensOf(p_reply.session_cookie[2]) = {p_session.id[2]}
        /\ (EffectiveConfig.session_mode = "cookie_jar" /\ valid) =>
              /\ ~p_did.minted
              /\ p_session.id # None
              /\ p_session.id[2] \in SignedTokensOf(p_request.cookie[2])

\* C6 as stated: a response built from an origin response carries Set-Cookie
\* px_session_id if and only if the session mode is cookie_jar and the request
\* presented no px_session_id whose signature verifies; never in stateless
\* mode; a validly signed cookie keeps its session and gets no new cookie.
C6_AsStated == SessionCookieRule(PresentedVerifies)

\* C6 amended: as C6, where a px_session_id counts as presented only when its
\* signature verifies and the token it signs is not empty (the signed empty
\* token is answered like no cookie: a fresh session is minted).
C6_SessionCookie == SessionCookieRule(PresentedSessionId)

\* a redirect answered to a request with a forged cookie carries a new session
C6_Witness ==
  /\ p_pc = "respond"
  /\ p_reply.kind = "redirect"
  /\ p_request.cookie = Some(<<"a",".","b","b">>)
  /\ p_reply.session_cookie = Some(sign_session_id(<<"b">>))

\* C20: every request proxy_handler handles (429, 404 for the admin host,
\* 404 for no site, 403, 502, 413, redirect, HTML, other content) has
\* produced exactly one log event when it is answered, at level warning when
\* the proxy itself answers with a 4xx and at level error when it answers
\* with a 5xx.
C20_OneLogEvent ==
  (p_pc = "respond" /\ p_reply.kind # "exception") =>
    /\ Len(p_did.events) = 1
    /\ (p_reply.own /\ p_reply.status \in 400..499) => p_did.events[1].level = "warning"
    /\ (p_reply.own /\ p_reply.status \in 500..599) => p_did.events[1].level = "error"

(***************************************************************************)
(* Redirects, upstream headers and response headers of one exchange.       *)
(***************************************************************************)
RedirectAnswered == x_pc = "done" /\ x_reply.kind = "redirect"
\* the Location of the origin response, resolved against the origin URL
AbsoluteLocation == urljoin(x_origin_url, ResponseLocation(x_response)[2])
InSourceNamespace(host) == host = SourceRoot \/ EndsWith(host, Dot(SourceRoot))
\* a host of the source namespace with the suffix S replaced by M
HostOnMirror(host) == Take(host, Len(host) - Len(SourceRoot)) \o MirrorRoot
QueryAndFragment(parts) ==
  (IF parts.query # <<>> THEN <<"?">> \o parts.query ELSE <<>>)
    \o (IF parts.fragment # <<>> THEN <<"#">> \o parts.fragment ELSE <<>>)
\* what follows the authority of a URL: its path (/ for none), query and fragment
AfterAuthority(url) == PathOrSlash(urlsplit(url).path) \o QueryAndFragment(urlsplit(url))
SafeRedirectNames == {<<"L","o","c","a","t","i","o","n">>, <<"c","a","c","h","e","-","c","o","n","t","r","o","l">>, <<"e","x","p","i","r","e","s">>}

\* C13: a 3xx whose Location, made absolute against the origin URL, has a
\* host in the source namespace is answered with the same status, with
\* Location https://<host with S replaced by M> followed by the unchanged
\* path, query and fragment, and with no origin header other than
\* cache-control and expires.
C13_RedirectInNamespace ==
  (RedirectAnswered /\ InSourceNamespace(HostOfUrl(AbsoluteLocation))) =>
    /\ x_reply.status = x_response.status
    /\ DictGet(x_reply.headers, <<"L","o","c","a","t","i","o","n">>)
         = HTTPS \o HostOnMirror(HostOfUrl(AbsoluteLocation)) \o AfterAuthority(AbsoluteLocation)
    /\ DictNames(x_reply.headers) \subseteq SafeRedirectNames

\* an external URL under the mirror root: https://M/<host><path>, query and
\* fragment kept
ExternalOnMirror(url) == HTTPS \o MirrorRoot \o <<"/">> \o HostOfUrl(url) \o AfterAuthority(url)

\* C14: a 3xx whose Location has a host outside the source namespace is
\* answered with the absolute origin URL unchanged when proxy_external_domains
\* is false, and with https://M/<external-host><external-path>, query and
\* fragment kept, when it is true.
C14_RedirectExternal ==
  (RedirectAnswered /\ ~InSourceNamespace(HostOfUrl(AbsoluteLocation))) =>
    DictGet(x_reply.headers, <<"L","o","c","a","t","i","o","n">>)
      = IF x_cfg.proxy_external_domains THEN ExternalOnMirror(AbsoluteLocation)
        ELSE AbsoluteLocation

\* the upstream request has just been sent (the jar is still as it was read)
UpstreamSent == x_upstream # None /\ (x_pc = "size" \/ x_response.error)
UpstreamHeaders == x_upstream[2].headers
UpstreamNames ==
  {FORWARD_HEADERS[i] : i \in 1..Len(FORWARD_HEADERS)} \cup {<<"H","o","s","t">>, <<"C","o","o","k","i","e">>}
\* the stored cookies of the session of the request, none without a session
JarCookies ==
  IF Truthy(x_session.id) /\ x_cfg.session_mode = "cookie_jar"
  THEN get_cookies(x_jar, JarKey(TheSite, x_session.id[2], x_origin_url))[2]
  ELSE <<>>
\* the headers of the request with its Cookie header and its headers outside
\* the whitelist replaced by others
WithOtherHeaders(other) ==
  SelectSeq(x_headers, LAMBDA h : h[1] \in UpstreamNames \ {<<"H","o","s","t">>, <<"C","o","o","k","i","e">>}) \o other
UpstreamOnlyWhitelisted == DictNames(UpstreamHeaders) \subseteq UpstreamNames
UpstreamHostIsOrigin == DictGet(UpstreamHeaders, <<"H","o","s","t">>) = HostOfUrl(x_origin_url)
UpstreamRefererIsOrigin ==
  Truthy(RequestHeader(x_headers, <<"r","e","f","e","r","e","r">>)) =>
    /\ DictHas(UpstreamHeaders, <<"r","e","f","e","r","e","r">>)
    /\ DictGet(UpstreamHeaders, <<"r","e","f","e","r","e","r">>) = x_origin_url
UpstreamCookieFromJar ==
  IF JarCookies = <<>> THEN ~DictHas(UpstreamHeaders, <<"C","o","o","k","i","e">>)
  ELSE /\ DictHas(UpstreamHeaders, <<"C","o","o","k","i","e">>)
       /\ DictGet(UpstreamHeaders, <<"C","o","o","k","i","e">>) = build_cookie_header(JarCookies)
UpstreamIgnoresOthers ==
  \A other \in OtherHeaders :
    x_upstream[2] =
      [url |-> x_origin_url,
       headers |-> ForwardWithCookies(
                     PrepareForwardHeaders(WithOtherHeaders(other), x_origin_url),
                     JarCookies)]

\* C16: the headers of the upstream request are among user-agent, accept,
\* accept-language, accept-encoding, content-type, referer, Host and Cookie;
\* Host is the origin hostname; Referer, when the client sent one, is the
\* origin URL; Cookie is built from the jar only; requests that differ in
\* the client's Cookie header or in headers outside the whitelist give the
\* same upstream request.
C16_UpstreamHeaders ==
  UpstreamSent =>
    /\ UpstreamOnlyWhitelisted
    /\ UpstreamHostIsOrigin
    /\ UpstreamRefererIsOrigin
    /\ UpstreamCookieFromJar
    /\ UpstreamIgnoresOthers

ContentAnswered == x_pc = "done" /\ x_reply.kind \in {"html", "other"}
LowerNames(headers) == {Lower(headers[i][1]) : i \in 1..Len(headers)}
\* the values of the headers of a name, compared in lower case, in order
ValuesNamed(headers, name) ==
  [i \in 1..Len(SelectSeq(headers, LAMBDA h : Lower(h[1]) = name)) |->
     SelectSeq(headers, LAMBDA h : Lower(h[1]) = name)[i][2]]
NeverPassedOn ==
  { <<"s","e","t","-","c","o","o","k","i","e">>, <<"c","o","n","t","e","n","t","-","s","e","c","u","r","i","t","y","-","p","o","l","i","c","y">>, <<"s","t","r","i","c","t","-","t","r","a","n","s","p","o","r","t","-","s","e","c","u","r","i","t","y">>,
    <<"x","-","f","r","a","m","e","-","o","p","t","i","o","n","s">>, <<"a","c","c","e","s","s","-","c","o","n","t","r","o","l","-","a","l","l","o","w","-","o","r","i","g","i","n">>, <<"c","o","n","t","e","n","t","-","e","n","c","o","d","i","n","g">>,
    <<"t","r","a","n","s","f","e","r","-","e","n","c","o","d","i","n","g">>, <<"c","o","n","t","e","n","t","-","l","e","n","g","t","h">> }

\* C17: the response to the user agent for a proxied origin response that is
\* no redirect has none of the origin's set-cookie, content-security-policy,
\* strict-transport-security, x-frame-options, access-control-allow-origin,
\* content-encoding, transfer-encoding and content-length headers, whatever
\* the case of their names, and has every other origin header with its value
\* (the values of a repeated header joined by ", "); no response carries a
\* Set-Cookie other than the px_session_id of the proxy.
C17_ResponseHeaders ==
  /\ ContentAnswered =>
       /\ LowerNames(x_reply.headers) = LowerNames(x_response.headers) \ NeverPassedOn
       /\ \A name \in LowerNames(x_reply.headers) :
            ValuesNamed(x_reply.headers, name)
              = <<JoinWith(ValuesNamed(x_response.headers, name), <<","," ">>)>>
  /\ x_pc = "done" =>
       /\ <<"s","e","t","-","c","o","o","k","i","e">> \notin LowerNames(x_reply.headers)
       /\ x_reply.session_cookie \in {None, x_session.signed}

\* an HTML response of the origin with every stripped header, in mixed case,
\* and a repeated header, answered to a request that got a new session
C17_Witness ==
  /\ ContentAnswered
  /\ x_reply.kind = "html"
  /\ NeverPassedOn \subseteq LowerNames(x_response.headers)
  /\ <<"X","-","F","r","a","m","e","-","O","p","t","i","o","n","s">> \in DictNames(x_response.headers)
  /\ ValuesNamed(x_reply.headers, <<"x","-","a">>) = <<<<"1",","," ","2">>>>
  /\ x_reply.session_cookie # None

(***************************************************************************)
(* The size guard.                                                         *)
(***************************************************************************)
\* the origin has answered and the size guard has decided
SizeChecked == x_pc \in {"store", "answer", "done"} /\ ~x_response.error /\ x_response.status # 0
\* the Content-Length the response declares, None without one
DeclaredLength(response) ==
  IF ResponseContentLength(response) = None THEN None
  ELSE Some(ParseInt(ResponseContentLength(response)[2]))
DeclaresOverLimit(response) ==
  /\ DeclaredLength(response) # None
  /\ DeclaredLength(response)[2] > MAX_RESPONSE_SIZE_MB * 1048576
Rejected413 ==
  /\ x_pc = "done"
  /\ x_reply.status = 413 /\ x_reply.own
  /\ x_reply.media_type = Some(<<"t","e","x","t","/","p","l","a","i","n">>)
\* the jar holds no more than it held when the request arrived
JarAsBefore == x_jar \in ExchangeJars(x_host)

\* C22: an origin response that declares a Content-Length above
\* MAX_RESPONSE_SIZE_MB x 1048576 bytes and whose content type is not media
\* is answered 413 with a plain-text body, its Set-Cookie headers are not
\* stored in the jar and no session cookie is emitted; a response that
\* declares a length equal to the limit, or none, is not rejected.
C22_SizeGuard ==
  SizeChecked =>
    /\ (DeclaresOverLimit(x_response) /\ ~IsMediaType(ResponseContentType(x_response)))
         => /\ Rejected413
            /\ JarAsBefore
            /\ x_reply.session_cookie = None
            /\ <<"s","e","t","-","c","o","o","k","i","e">> \notin LowerNames(x_reply.headers)
    /\ (\/ DeclaredLength(x_response) = None
        \/ DeclaredLength(x_response) = Some(MAX_RESPONSE_SIZE_MB * 1048576))
         => /\ x_reply.status # 413
            /\ x_pc = "done" => x_reply.kind \in {"redirect", "html", "other"}

\* a response one byte over the limit that sets a cookie, rejected for a
\* request in cookie_jar mode whose session was just minted
C22_Witness ==
  /\ Rejected413
  /\ x_cfg.session_mode = "cookie_jar"
  /\ x_session.new
  /\ DeclaredLength(x_response) = Some(15728641)
  /\ parse_set_cookie_headers(x_response.headers) # <<>>
  /\ JarAsBefore

(***************************************************************************)
(* The cookie jar after sequential store_cookies calls.                    *)
(***************************************************************************)
\* the Set-Cookie headers stored under a key, in call order, then list order
RECURSIVE HeadersStoredFor(_, _)
HeadersStoredFor(history, key) ==
  IF history = <<>> THEN <<>>
  ELSE (IF Head(history).key = key THEN Head(history).headers ELSE <<>>)
         \o HeadersStoredFor(Tail(history), key)
\* a header up to its first ';'
BeforeSemicolon(header) ==
  IF HasChar(header, ";") THEN SubSeq(header, 1, Find(header, ";") - 1) ELSE header
NamesCookie(header) == HasChar(BeforeSemicolon(header), "=")
\* the name and the value of a header that names a cookie, without the
\* white space around them
NameOf(header) ==
  Strip(SubSeq(BeforeSemicolon(header), 1, Find(BeforeSemicolon(header), "=") - 1))
ValueOf(header) ==
  Strip(SubSeq(BeforeSemicolon(header), Find(BeforeSemicolon(header), "=") + 1,
               Len(BeforeSemicolon(header))))
Naming(headers, name) ==
  {i \in 1..Len(headers) : NamesCookie(headers[i]) /\ NameOf(headers[i]) = name}
LastNaming(headers, name) ==
  headers[CHOOSE i \in Naming(headers, name) : \A j \in Naming(headers, name) : j <= i]
NamesIn(headers) ==
  {NameOf(headers[i]) : i \in {j \in 1..Len(headers) : NamesCookie(headers[j])}}
GotHeaders == HeadersStoredFor(j_history, j_got.key)

\* C15: after any sequence of sequential store_cookies calls, get_cookies
\* of a (site, session, origin host) maps each cookie name of the Set-Cookie
\* headers stored for it to the value of the last header that named it (call
\* order, then list order); what follows the first ';' of a header is
\* discarded; headers without '=' and empty lists change nothing; no name is
\* removed.
C15_SequentialStores ==
  j_pc = "read" =>
    /\ j_got.result # Raised
    /\ DictNames(j_got.result[2]) = NamesIn(GotHeaders)
    /\ \A name \in NamesIn(GotHeaders) :
         DictGet(j_got.result[2], name) = ValueOf(LastNaming(GotHeaders, name))

\* three calls on one key: a=1 with an attribute, then a=3 and b=2, then a
\* header without '='; the jar holds a=3 and b=2
C15_Witness ==
  /\ j_pc = "read"
  /\ Len(j_history) = 3
  /\ \A i \in 1..3 : j_history[i].key = j_got.key
  /\ j_history[1].headers = <<SetCookie_a1>>
  /\ j_history[2].headers = <<SetCookie_a3, SetCookie_b2>>
  /\ j_history[3].headers = <<SetCookie_flag>>
  /\ j_got.result = Some(<< <<<<"a">>, <<"3">>>>, <<<<"b">>, <<"2">>>> >>)

(***************************************************************************)
(* get_retry_after after a denial.                                         *)
(***************************************************************************)
\* max(0, W - (now - oldest timestamp)) of a get_retry_after call, in ticks
RetryTicks(record) ==
  IF WindowTicks - (record.at - record.oldest) > 0
  THEN WindowTicks - (record.at - record.oldest) ELSE 0
\* the value is that time in whole seconds, and lies in [0, W]
WholeSecondsOf(record) ==
  /\ record.value \in 0..window_seconds
  /\ record.value * TicksPerSecond <= RetryTicks(record)
  /\ RetryTicks(record) < (record.value + 1) * TicksPerSecond
RetryValuesExact ==
  \A ip \in ClientIPs : \A i \in 1..Len(ra_retry[ip]) : WholeSecondsOf(ra_retry[ip][i])

\* C19 as stated: after is_allowed(ip) returned a denial, get_retry_after(ip)
\* returns max(0, W - (now - oldest timestamp of the IP)) in whole seconds, a
\* number in [0, W], and of two successive get_retry_after(ip) calls the
\* later never returns more than the earlier.
C19_AsStated ==
  /\ RetryValuesExact
  /\ \A ip \in ClientIPs :
       Len(ra_retry[ip]) = 2 => ra_retry[ip][2].value <= ra_retry[ip][1].value

\* C19, amended: the later call never returns more than the earlier as long
\* as no is_allowed(ip) call was admitted between the two.
C19_RetryAfter ==
  /\ RetryValuesExact
  /\ \A ip \in ClientIPs :
       (Len(ra_retry[ip]) = 2 /\ ra_retry[ip][1].admits = ra_retry[ip][2].admits)
         => ra_retry[ip][2].value <= ra_retry[ip][1].value

\* two get_retry_after calls after a denial with no admission in between:
\* the first cut off a fraction of a second, the later one returned less
C19_Witness ==
  \E ip \in ClientIPs :
    /\ ra_result[ip] = <<FALSE, 0>>
    /\ Len(ra_retry[ip]) = 2
    /\ ra_retry[ip][1].admits = ra_retry[ip][2].admits
    /\ ra_retry[ip][1].at < ra_retry[ip][2].at
    /\ RetryTicks(ra_retry[ip][1]) % TicksPerSecond # 0
    /\ ra_retry[ip][2].value < ra_retry[ip][1].value

(***************************************************************************)
(* Routing: the admin guard, the site lookup, the upstream target.         *)
(***************************************************************************)
\* the admin guard and the site lookup have both decided
RoutingDecided == rt_pc \notin {"admin_guard", "find_site"}
\* an enabled site's mirror_root equals the host (without its port) or is a
\* DNS suffix of it
UnderEnabledSite(host, sites) ==
  \E i \in 1..Len(sites) :
    /\ sites[i].enabled
    /\ \/ HostWithoutPort(host) = sites[i].mirror_root
       \/ EndsWith(HostWithoutPort(host), Dot(sites[i].mirror_root))
Own404 == rt_pc = "answered" /\ rt_reply = 404
ProceededToOriginUrl == rt_pc \in {"build_origin", "ssrf_check", "proxy_request", "send", "sent"} \/ (rt_pc = "answered" /\ rt_reply = 403)

\* C21: a request admitted by the rate limiter is answered with the proxy's
\* own 404 if and only if its host equals ADMIN_HOST or no enabled site's
\* mirror_root equals the host or is a DNS suffix of it; every other admitted
\* request proceeds to origin-URL construction.
C21_Own404 ==
  RoutingDecided =>
    /\ Own404 <=> (rt_request.host = ADMIN_HOST \/ ~UnderEnabledSite(rt_request.host, rt_sites))
    /\ ~Own404 => ProceededToOriginUrl

\* find_site_by_host has returned
LookedUp == rt_pc \notin {"admin_guard", "find_site"} /\ ~IsAdminHost(rt_request.host)
\* the enabled sites whose mirror_root is the port-stripped host
ExactSites(host, sites) ==
  { sites[i] : i \in { j \in 1..Len(sites) :
       sites[j].enabled /\ sites[j].mirror_root = HostWithoutPort(host) } }
\* the rows read in the opposite order
Reversed(sites) == [i \in 1..Len(sites) |-> sites[Len(sites) + 1 - i]]

\* C30: for a registry with unique mirror_roots find_site_by_host never
\* returns a disabled site; when an enabled site's mirror_root equals the
\* port-stripped host it returns that site, even if another enabled site's
\* mirror_root is a DNS suffix of the host; and the result does not depend
\* on the order in which the sites are read.
C30_FindSite ==
  LookedUp =>
    /\ rt_site # None => rt_site[2].enabled
    /\ \A site \in ExactSites(rt_request.host, rt_sites) : rt_site = Some(site)
    /\ find_site_by_host(rt_request.host, Reversed(rt_sites)) = rt_site

\* the upstream request has been sent
TargetSent == rt_pc = "sent"
\* the first segment of the path names an external host
FirstPathSegment(path) == Split1(path, "/")[1]
EncodedExternal(path) == HasChar(FirstPathSegment(path), ".")
QueryText(query) == IF query # <<>> THEN <<"?">> \o query ELSE <<>>
\* the sub-domain labels of the host in front of the site's mirror_root
SubdomainLabels(host, mirror_root) ==
  IF EndsWith(HostWithoutPort(host), Dot(mirror_root))
  THEN Take(HostWithoutPort(host), Len(HostWithoutPort(host)) - Len(mirror_root))
  ELSE <<>>

\* C29: the upstream target is a function of (host, path, query,
\* mirror_root, source_root) only, whatever the effective
\* proxy_external_domains and proxy_subdomains: a path with an encoded
\* external host is fetched from that host, a sub-domain host x.M from x.S.
C29_TargetIgnoresFlags ==
  TargetSent =>
    /\ rt_upstream =
         Some(build_origin_url(HostWithoutPort(rt_request.host),
                               MirrorPathWithQuery(rt_request.path, rt_request.query),
                               rt_site[2].source_root, rt_site[2].mirror_root))
    /\ EncodedExternal(rt_request.path) =>
         rt_upstream = Some(HTTPS \o rt_request.path \o QueryText(rt_request.query))
    /\ ~EncodedExternal(rt_request.path) =>
         rt_upstream =
           Some(HTTPS \o SubdomainLabels(rt_request.host, rt_site[2].mirror_root)
                  \o rt_site[2].source_root
                  \o MirrorPathWithQuery(rt_request.path, rt_request.query))

\* with both flags false in effect, the external host of the path is fetched
C29_Witness ==
  /\ TargetSent
  /\ rt_config.proxy_subdomains = Some(FALSE)
  /\ rt_config.proxy_external_domains = Some(FALSE)
  /\ rt_request.host = <<"y",".","m",".","c">>
  /\ rt_upstream = Some(HTTPS \o <<"e",".","c","/","a","?","q">>)

(***************************************************************************)
(* get_effective_config.                                                   *)
(***************************************************************************)
\* the step of a get_effective_config call
ConfigCallReturns == cf_pc = "call" /\ cf_pc' = "returned"
\* the site's value when it is not null, the global value otherwise
SiteElseGlobal(site, global_config, f) ==
  IF site[f] # None THEN site[f] ELSE global_config[f]

\* C23: get_effective_config is a pure function: for each of the ten
\* configuration fields the result is the site's value when that value is
\* not null (False and the empty string included) and the global value
\* otherwise; the call changes neither its arguments nor any other state.
C23_EffectiveConfig ==
  [][ConfigCallReturns =>
        /\ cf_result' # None
        /\ DOMAIN cf_result'[2] = ConfigFields
        /\ Cardinality(ConfigFields) = 10
        /\ \A f \in ConfigFields :
             cf_result'[2][f] = SiteElseGlobal(cf_site, cf_global, f)
        /\ cf_site' = cf_site /\ cf_global' = cf_global
        /\ UNCHANGED otherThanConfig]_vars

\* a site that sets False and "" where the global row has True and a text,
\* and leaves null what the global row sets
C23_Witness ==
  /\ cf_pc = "returned"
  /\ cf_site.remove_ads = Some(FALSE) /\ cf_global.remove_ads = Some(TRUE)
  /\ cf_result[2].remove_ads = Some(FALSE)
  /\ cf_site.custom_ad_html = Some("") /\ cf_global.custom_ad_html = Some("<b>g</b>")
  /\ cf_result[2].custom_ad_html = Some("")
  /\ cf_site.media_policy = None
  /\ cf_result[2].media_policy = Some("size_limited")

(***************************************************************************)
(* rewrite_html: the attribute sweep.                                      *)
(***************************************************************************)
SweepRewrite(url) ==
  rewrite_url(url, PageOriginURL(sw_mhost), sw_mhost, TheSite.mirror_root,
              TheSite.source_root, sw_cfg)

\* element i is of a listed type and carries the listed attribute
Listed(i) ==
  /\ sw_soup[i].name \in SweptTypes
  /\ sw_soup[i].attrs[SWEPT_ATTRIBUTE[sw_soup[i].name]] # None

\* the attributes of element i that the sweep may write: the listed one, and
\* the srcset of an image
Sweepable(i) ==
  {SWEPT_ATTRIBUTE[sw_soup[i].name]}
    \cup (IF sw_soup[i].name = "img" THEN {"srcset"} ELSE {})

ListedAttributeRewritten(i) ==
  sw_out[i].attrs[SWEPT_ATTRIBUTE[sw_soup[i].name]]
    = Some(SweepRewrite(sw_soup[i].attrs[SWEPT_ATTRIBUTE[sw_soup[i].name]][2]))

OtherAttributesKept(i) ==
  \A b \in AttrNames \ Sweepable(i) : sw_out[i].attrs[b] = sw_soup[i].attrs[b]

\* C24: after the attribute sweep of rewrite_html, on every element of the
\* types a[href], form[action], iframe[src], link[href], script[src],
\* img[src], source[src], video[src], audio[src] and base[href] the listed
\* attribute holds rewrite_url of its original value, and no other attribute
\* of the element is added or changed.
C24_AttributeSweep ==
  sw_pc = "swept" =>
    /\ Len(sw_out) = Len(sw_soup)
    /\ \A i \in 1..Len(sw_soup) :
         Listed(i) => ListedAttributeRewritten(i) /\ OtherAttributesKept(i)

(***************************************************************************)
(* clean_html and inject_ads_and_trackers.                                 *)
(***************************************************************************)
\* every element and string of a text, at any depth
NodesOf(html) ==
  LET soup == BeautifulSoup(html)
      top  == {soup.head[i] : i \in 1..Len(soup.head)} \cup {soup.body[i] : i \in 1..Len(soup.body)}
  IN  top \cup UNION {{n.children[i] : i \in 1..Len(n.children)} : n \in top}

HoldsAdPattern(src) == \E pattern \in AD_PATTERNS : Contains(Lower(src), pattern)
HoldsTrackingPattern(text) == \E pattern \in INLINE_SCRIPT_PATTERNS : Contains(text, pattern)

\* what the clean pass is to remove
Unwanted(n) ==
  \/ n.name = "script" /\ n.src # None /\ HoldsAdPattern(n.src[2])
  \/ n.name = "script" /\ n.src = None /\ HoldsTrackingPattern(n.text)
  \/ n.name = "iframe" /\ n.src # None /\ HoldsAdPattern(n.src[2])

CleanEnabled == f_config.remove_ads \/ f_config.remove_analytics

OperatorNodes == SelectSeq(BeautifulSoup(f_config.custom_ad_html).body, Appendable)
\* the script the pass makes for custom_tracker_js, if any
OperatorScript ==
  IF f_config.custom_tracker_js = <<>> THEN <<>>
  ELSE <<TrackerScript(f_config.custom_tracker_js)>>
\* one complete copy of the operator content
OperatorContent == OperatorNodes \o OperatorScript

\* the document has a <body> and the fragment at least one node to append
InjectsAds(html) ==
  /\ f_config.inject_ads
  /\ "body" \in BeautifulSoup(html).parts
  /\ Len(OperatorNodes) >= 1

\* C26: for a document with a <body> and an operator fragment of k >= 1
\* top-level nodes, with inject_ads true, inject_ads_and_trackers appends all
\* k nodes in their order as the last children of <body>, so each call adds
\* exactly one complete copy of the operator content.
C26_InjectAppendsAll ==
  /\ f_op = "inject" /\ f_pc \in {"once", "twice"} /\ InjectsAds(f_html) =>
       BeautifulSoup(f_once).body = BeautifulSoup(f_html).body \o OperatorContent
  /\ f_op = "inject" /\ f_pc = "twice" /\ InjectsAds(f_html) =>
       BeautifulSoup(f_twice).body = BeautifulSoup(f_once).body \o OperatorContent

(***************************************************************************)
(* The rate limiter's request log in the running application.              *)
(***************************************************************************)
Held(ip) == ip \in DOMAIN mt_log
\* the IP is held and none of its timestamps is within the window
AgedOut(ip) == Held(ip) /\ RecentRequests(mt_log[ip], Now - WindowTicks) = <<>>

\* cleanup_old_entries would change no admission decision in this state
MaintenanceKeepsDecisions ==
  \A ip \in ClientIPs :
     is_allowed(DefaultDict(cleanup_old_entries(mt_log, Now)), ip, Now)
       = is_allowed(DefaultDict(mt_log), ip, Now)

\* C27: in the running system every IP whose admission timestamps have all
\* aged out of the window is eventually removed from request_log by the
\* periodic maintenance (cleanup_old_entries), which bounds the IPs held by
\* those with a live timestamp; the maintenance never changes an admission
\* decision.
C27_EvictedEventually ==
  /\ \A ip \in ClientIPs : AgedOut(ip) ~> ~Held(ip)
  /\ []MaintenanceKeepsDecisions

(***************************************************************************)
(* The cookie jar shared by the requests in flight.                        *)
(***************************************************************************)
\* the Cookie header of the cookies the origin host set in answers to
\* requests of this site and session
LearnedCookie(site_id, session_id, origin_host) ==
  <<"s", "=", SessionChar(session_id)>> \o <<";"," ">>
    \o <<"h", "=", HostChar(origin_host)>> \o <<";"," ">>
    \o <<"i", "=", SiteChar(site_id)>>

\* the upstream request of r carries cookies from the jar
SendsCookies(r) == sh_req[r].pc \in {"upstream", "commit"} /\ sh_req[r].cookie # None

\* C28: cookie-jar isolation.  Whatever the interleaving of requests of
\* several sessions and sites, the cookies attached to an upstream request
\* are those learned from answers of exactly the host it goes to, for the
\* same site and the same session: none of another session, another site or
\* another host, parent and sub-domains included.
C28_JarIsolation ==
  \A r \in JarRequests :
     SendsCookies(r) =>
       sh_req[r].cookie[2]
         = LearnedCookie(sh_req[r].site_id, sh_req[r].session_id, sh_req[r].sent_to)

\* a request of session a to s.c through site 1 carries its cookies while
\* the jar also holds cookies of other keys: of another session, of the
\* sub-domain host or of the other site
C28_Witness ==
  \E r \in JarRequests :
    /\ SendsCookies(r)
    /\ sh_req[r].site_id = 1 /\ sh_req[r].session_id = <<"a">> /\ sh_req[r].sent_to = SourceRoot
    /\ \E i \in 1..Len(sh_jars) :
         /\ sh_jars[i].key # sh_req[r].key
         /\ \/ sh_jars[i].key.session_id = <<"b">>
            \/ sh_jars[i].key.origin_host = <<"x",".">> \o SourceRoot
            \/ sh_jars[i].key.site_id = 2
====
